---------------------------- MODULE Spec2Model ----------------------------
(***************************************************************************)
(* A model of the disposable-email risk engine (DisposableEmailChecker,    *)
(* second generation): the pattern analyzer, the risk scorer, the result   *)
(* cache and the domain refresher of src/app/modules/v2/email_checker.py.  *)
(*                                                                         *)
(* A Python str is modelled as a sequence of one-character strings, so     *)
(* that the regular expressions, split, lower and strip of the source are  *)
(* computed character by character.                                        *)
(***************************************************************************)
EXTENDS Integers, Sequences, FiniteSets, TLC

-----------------------------------------------------------------------------
(* Characters and the str methods the checker uses                         *)

LowerSeq == <<"a", "b", "c", "d", "e", "f", "g", "h", "i", "j", "k", "l", "m",
              "n", "o", "p", "q", "r", "s", "t", "u", "v", "w", "x", "y", "z">>

UpperSeq == <<"A", "B", "C", "D", "E", "F", "G", "H", "I", "J", "K", "L", "M",
              "N", "O", "P", "Q", "R", "S", "T", "U", "V", "W", "X", "Y", "Z">>

Digits == {"0", "1", "2", "3", "4", "5", "6", "7", "8", "9"}

LowerLetters == {LowerSeq[i] : i \in 1..26}

UpperLetters == {UpperSeq[i] : i \in 1..26}

\* [a-zA-Z0-9]
Alnum == LowerLetters \cup UpperLetters \cup Digits

\* the grave accent (U+0060), which a TLA+ string cannot hold, as one
\* element of the alphabet
Grave == "grave"

\* the local-part class of email_pattern: letters, digits and
\* . ! # $ % & ' * + / = ? ^ _ (grave accent) { | } ~ -
LocalChars == Alnum \cup {".", "!", "#", "$", "%", "&", "'", "*", "+", "/",
                          "=", "?", "^", "_", Grave, "{", "|", "}", "~", "-"}

\* the characters str.strip() removes
Whitespace == {" ", "\t", "\n", "\r"}

\* Python's None for an Optional[str]: no str is a sequence holding a
\* string of more than one character
None == <<"None">>

LowerChar(c) ==
    IF c \in UpperLetters
      THEN LowerSeq[CHOOSE i \in 1..26 : UpperSeq[i] = c]
      ELSE c

\* str.lower()
lower(s) == [i \in 1..Len(s) |-> LowerChar(s[i])]

\* str.strip()
strip(s) ==
    LET keep == {i \in 1..Len(s) : s[i] \notin Whitespace}
    IN  IF keep = {} THEN <<>>
        ELSE SubSeq(s, CHOOSE i \in keep : \A j \in keep : i <= j,
                       CHOOSE i \in keep : \A j \in keep : j <= i)

\* str.count(c) for a single character
count(s, c) == Cardinality({i \in 1..Len(s) : s[i] = c})

\* str.split(c) for a single character: the parts between the occurrences
split(s, c) ==
    LET pos == {i \in 1..Len(s) : s[i] = c}
        n   == Cardinality(pos)
        at(k) == IF k = 0 THEN 0
                 ELSE IF k = n + 1 THEN Len(s) + 1
                 ELSE CHOOSE p \in pos : Cardinality({q \in pos : q < p}) = k - 1
    IN  [k \in 1..(n + 1) |-> SubSeq(s, at(k - 1) + 1, at(k) - 1)]

\* sub in s
contains(s, sub) ==
    \E i \in 1..(Len(s) - Len(sub) + 1) : SubSeq(s, i, i + Len(sub) - 1) = sub

\* str.startswith / str.endswith
startswith(s, p) == Len(p) <= Len(s) /\ SubSeq(s, 1, Len(p)) = p

endswith(s, p) == Len(p) <= Len(s) /\ SubSeq(s, Len(s) - Len(p) + 1, Len(s)) = p

\* bool(s) of a str
truthy(s) == s # <<>>

\* A regular expression ending in $ matches at the end of the string and
\* also just before a newline that is the string's last character.
DollarBodies(s) ==
    {s} \cup (IF Len(s) > 0 /\ s[Len(s)] = "\n" THEN {SubSeq(s, 1, Len(s) - 1)} ELSE {})

-----------------------------------------------------------------------------
(* Pattern analyzer                                                        *)

\* one label of the domain grammar of email_pattern:
\* [a-zA-Z0-9](?:[a-zA-Z0-9-]{0,61}[a-zA-Z0-9])?
DomainLabel(l) ==
    /\ Len(l) >= 1
    /\ Len(l) <= 63
    /\ l[1] \in Alnum
    /\ l[Len(l)] \in Alnum
    /\ \A i \in 1..Len(l) : l[i] \in Alnum \cup {"-"}

\* self.email_pattern.match(email): one or more local-part characters, "@",
\* a label, then any number of "." label
email_pattern(email) ==
    \E b \in DollarBodies(email) :
        LET parts == split(b, "@")
        IN  /\ Len(parts) = 2
            /\ Len(parts[1]) >= 1
            /\ \A i \in 1..Len(parts[1]) : parts[1][i] \in LocalChars
            /\ LET labels == split(parts[2], ".")
               IN  \A k \in 1..Len(labels) : DomainLabel(labels[k])

\* a variant of _extract_domain that takes what follows the first "@" and
\* does not test the number of parts
_extract_domain_first_at(email) ==
    IF count(email, "@") = 0 THEN None
    ELSE LET domain == strip(lower(split(email, "@")[2]))
         IN  IF ~truthy(domain) \/ startswith(domain, <<".">>) \/ endswith(domain, <<".">>)
               THEN None
               ELSE domain

\* _extract_domain: None unless there is exactly one "@" and the part after
\* it, lowered and stripped, is non-empty and has no dot at either end
_extract_domain(email) ==
    IF count(email, "@") = 0 THEN None
    ELSE LET parts == split(email, "@")
         IN  IF Len(parts) # 2 THEN None
             ELSE LET domain == strip(lower(parts[2]))
                  IN  IF ~truthy(domain) \/ startswith(domain, <<".">>)
                                         \/ endswith(domain, <<".">>)
                        THEN None
                        ELSE domain

\* a variant of _is_valid_email_format without the limit of 254 characters
_is_valid_email_format_no_limit(email) ==
    truthy(email) /\ email_pattern(email)

\* _is_valid_email_format
_is_valid_email_format(email) ==
    IF ~truthy(email) \/ Len(email) > 254 THEN FALSE
    ELSE email_pattern(email)

suspicious_keywords ==
    { <<"t", "e", "m", "p">>,
      <<"t", "e", "m", "p", "o", "r", "a", "r", "y">>,
      <<"d", "i", "s", "p", "o", "s", "a", "b", "l", "e">>,
      <<"t", "h", "r", "o", "w">>,
      <<"f", "a", "k", "e">>,
      <<"t", "e", "s", "t">>,
      <<"s", "p", "a", "m">>,
      <<"t", "r", "a", "s", "h">>,
      <<"d", "u", "m", "m", "y">>,
      <<"d", "e", "l", "e", "t", "e">>,
      <<"r", "e", "m", "o", "v", "e">>,
      <<"n", "o", "e", "m", "a", "i", "l">>,
      <<"n", "o", "m", "a", "i", "l">>,
      <<"t", "e", "m", "p", "m", "a", "i", "l">>,
      <<"g", "u", "e", "r", "r", "i", "l", "l", "a", "m", "a", "i", "l">>,
      <<"m", "a", "i", "l", "i", "n", "a", "t", "o", "r">>,
      <<"1", "0", "m", "i", "n", "u", "t", "e">>,
      <<"m", "i", "n", "u", "t", "e">>,
      <<"h", "o", "u", "r">>,
      <<"d", "a", "y">> }

suspicious_tlds ==
    { <<".", "t", "k">>, <<".", "m", "l">>, <<".", "g", "a">>, <<".", "c", "f">>,
      <<".", "p", "w">>, <<".", "c", "c">>, <<".", "w", "s">>,
      <<".", "i", "n", "f", "o">> }

\* the names of the pattern flags, in the order of the patterns dict
PatternNames ==
    { "has_numbers_only_username", "has_random_username", "has_temp_keywords",
      "has_suspicious_tld", "has_multiple_dots", "has_plus_addressing",
      "has_consecutive_dots", "has_short_domain", "has_long_username",
      "has_special_chars_excess" }

_check_suspicious_patterns(email) ==
    LET username == split(email, "@")[1]
        domain   == _extract_domain(email)
    IN  [ has_numbers_only_username |->
              \E b \in DollarBodies(username) :
                  Len(b) >= 1 /\ \A i \in 1..Len(b) : b[i] \in Digits,
          has_random_username |->
              \E i \in 1..(Len(username) - 14) :
                  \A j \in i..(i + 14) : username[j] \in Alnum,
          has_temp_keywords |->
              \E kw \in suspicious_keywords : contains(lower(email), kw),
          has_suspicious_tld |->
              \E tld \in suspicious_tlds : endswith(lower(email), tld),
          has_multiple_dots |-> count(email, ".") > 3,
          has_plus_addressing |-> count(username, "+") > 0,
          has_consecutive_dots |-> contains(email, <<".", ".">>),
          has_short_domain |-> domain # None /\ truthy(domain) /\ Len(domain) < 4,
          has_long_username |-> Len(username) > 50,
          has_special_chars_excess |->
              Cardinality({i \in 1..Len(username) :
                              username[i] \in {".", "_", "%", "+", "-"}}) > 3 ]

-----------------------------------------------------------------------------
(* The addresses and domains the checks draw their inputs from             *)

Rep(c, n) == [i \in 1..n |-> c]

\* ""
E_empty == <<>>

\* "invalid-email" (test_invalid_email_v2): no "@"
E_no_at == <<"i", "n", "v", "a", "l", "i", "d", "-", "e", "m", "a", "i", "l">>

\* "a@b@c.co": two "@"
E_two_at == <<"a", "@", "b", "@", "c", ".", "c", "o">>

\* "a@b.co.": the domain ends with "."
E_trailing_dot == <<"a", "@", "b", ".", "c", "o", ".">>

\* 250 times "a", then "@b.co": 255 characters, well-formed but for its length
E_too_long == Rep("a", 250) \o <<"@", "b", ".", "c", "o">>

\* 249 times "a", then "@b.co": 254 characters, the longest accepted length
E_max_len == Rep("a", 249) \o <<"@", "b", ".", "c", "o">>

\* "john.doe@gmail.com" (test_valid_email_v2): no pattern flag
E_plain == <<"j", "o", "h", "n", ".", "d", "o", "e", "@", "g", "m", "a", "i", "l", ".", "c", "o", "m">>

\* "fake@mailinator.com" (test_disposable_email_v2): temp keyword
E_fake == <<"f", "a", "k", "e", "@", "m", "a", "i", "l", "i", "n", "a", "t", "o", "r", ".", "c", "o", "m">>

\* "admin@example.com" (test_whitelisted_email_v2): no pattern flag
E_admin == <<"a", "d", "m", "i", "n", "@", "e", "x", "a", "m", "p", "l", "e", ".", "c", "o", "m">>

\* "Bob@Example.COM": the domain in upper case
E_upper == <<"B", "o", "b", "@", "E", "x", "a", "m", "p", "l", "e", ".", "C", "O", "M">>

\* "bob@example.com": E_upper in lower case
E_lower == lower(E_upper)

\* "admin@example.com\n": accepted by email_pattern, whose $ matches before
\* a final newline
E_newline == <<"a", "d", "m", "i", "n", "@", "e", "x", "a", "m", "p", "l", "e", ".", "c", "o", "m", "\n">>

\* "a@b": a one-label domain shorter than 4 characters
E_short == <<"a", "@", "b">>

\* "123456789012345@gmail.com": numbers only and a 15-character run, 35
E_digits15 == <<"1", "2", "3", "4", "5", "6", "7", "8", "9", "0", "1", "2", "3", "4", "5", "@", "g", "m", "a", "i", "l", ".", "c", "o", "m">>

\* "test@a.tk": temp keyword and suspicious TLD, 55
E_test_tk == <<"t", "e", "s", "t", "@", "a", ".", "t", "k">>

\* "123@temp.tk": numbers only, temp keyword and suspicious TLD, 75
E_numeric_tk == <<"1", "2", "3", "@", "t", "e", "m", "p", ".", "t", "k">>

\* "aaaaaaaaaaaaaaa..a+b@temp.x.tk": flags weighing 105 together
E_capped == Rep("a", 15) \o <<".", ".", "a", "+", "b", "@", "t", "e", "m", "p", ".", "x", ".", "t", "k">>

D_gmail == <<"g", "m", "a", "i", "l", ".", "c", "o", "m">>

D_mailinator == <<"m", "a", "i", "l", "i", "n", "a", "t", "o", "r", ".", "c", "o", "m">>

D_example == <<"e", "x", "a", "m", "p", "l", "e", ".", "c", "o", "m">>

D_temp_tk == <<"t", "e", "m", "p", ".", "t", "k">>

D_a_tk == <<"a", ".", "t", "k">>

D_temp_x_tk == <<"t", "e", "m", "p", ".", "x", ".", "t", "k">>

D_b_co == <<"b", ".", "c", "o">>

\* 'Example.COM', as an administrator may type it
D_Example_COM == <<"E", "x", "a", "m", "p", "l", "e", ".", "C", "O", "M">>

\* ' example.com', with a leading blank
D_example_padded == <<" ">> \o D_example

\* 'a.b_c-d%e@gmail.com': four of the characters . _ % + - in the username
E_specials == <<"a", ".", "b", "_", "c", "-", "d", "%", "e", "@", "g", "m", "a", "i", "l", ".", "c", "o", "m">>

AllEmails ==
    { E_empty, E_no_at, E_two_at, E_trailing_dot, E_too_long, E_max_len,
      E_plain, E_fake, E_admin, E_upper, E_newline, E_short, E_digits15,
      E_test_tk, E_numeric_tk, E_capped, E_lower, E_specials }

\* The pattern analyzer is pure: its answers for the addresses above, worked
\* out once
ValidFormatOf == [e \in AllEmails |-> _is_valid_email_format(e)]

DomainOf == [e \in AllEmails |-> _extract_domain(e)]

PatternsOf == [e \in AllEmails |-> _check_suspicious_patterns(e)]

-----------------------------------------------------------------------------
(* Configuration of the checker instance                                   *)

\* the constructor's cache_ttl, update_interval and max_cache_size, scaled
\* to a clock that ticks in whole units
cache_ttl == 2

update_interval == 1

max_cache_size == 1

\* how far the clock runs past its first reading
MaxTicks == 1

\* the same where the cache is watched until its entries expire
MaxCacheTicks == 2

\* the number of check_email calls that can be in flight together
NumTasks == 1

Tasks == 1..NumTasks

\* the number of refresh operations that can be in flight together
NumRefreshers == 2

Refreshers == 1..NumRefreshers

-----------------------------------------------------------------------------
(* Verdicts                                                                *)

\* the members of the RiskLevel enum, and their values
RiskLevel ==
    [ LOW |-> "RiskLevel.LOW", MEDIUM |-> "RiskLevel.MEDIUM",
      HIGH |-> "RiskLevel.HIGH", CRITICAL |-> "RiskLevel.CRITICAL" ]

\* RiskLevel.<member>.value
RiskLevelValue(level) ==
    CASE level = RiskLevel.LOW      -> "low"
      [] level = RiskLevel.MEDIUM   -> "medium"
      [] level = RiskLevel.HIGH     -> "high"
      [] level = RiskLevel.CRITICAL -> "critical"

\* isinstance(level, RiskLevel)
IsRiskLevel(level) ==
    level \in {RiskLevel.LOW, RiskLevel.MEDIUM, RiskLevel.HIGH, RiskLevel.CRITICAL}

\* an Optional[bool]: the reachability tri-state
MxTrue == "True"

MxFalse == "False"

MxNone == "None"

\* the empty dict
EmptyDict == <<>>

\* EmailCheckResult.to_dict(): the fields as a dict, the risk level as the
\* enum member's value when it is a member and as it stands otherwise
to_dict(r) ==
    [ email           |-> r.email,
      is_disposable   |-> r.is_disposable,
      is_valid_format |-> r.is_valid_format,
      domain          |-> r.domain,
      risk_score      |-> r.risk_score,
      risk_level      |-> IF IsRiskLevel(r.risk_level)
                            THEN RiskLevelValue(r.risk_level)
                            ELSE r.risk_level,
      checks          |-> r.checks,
      timestamp       |-> r.timestamp ]

\* EmailCheckResult(**d): every field taken from the dict as it is
EmailCheckResult(d) ==
    [ email           |-> d.email,
      is_disposable   |-> d.is_disposable,
      is_valid_format |-> d.is_valid_format,
      risk_score      |-> d.risk_score,
      risk_level      |-> d.risk_level,
      checks          |-> d.checks,
      timestamp       |-> d.timestamp,
      domain          |-> d.domain ]

\* the result check_email starts from
InitialResult(e, current_time) ==
    [ email           |-> e,
      is_disposable   |-> FALSE,
      is_valid_format |-> ValidFormatOf[e],
      domain          |-> None,
      risk_score      |-> 0,
      risk_level      |-> RiskLevel.LOW,
      checks          |-> [ domain_blacklist    |-> FALSE,
                            domain_whitelist    |-> FALSE,
                            suspicious_patterns |-> EmptyDict,
                            mx_record_exists    |-> MxNone ],
      timestamp       |-> current_time ]

\* the result of a task that runs no check
NoResult == InitialResult(<<>>, 0)

-----------------------------------------------------------------------------
(* Risk scorer                                                             *)

\* a variant of _calculate_risk_level whose CRITICAL begins at 95
_calculate_risk_level_from_base(risk_score) ==
    IF risk_score >= 95 THEN RiskLevel.CRITICAL
    ELSE IF risk_score >= 70 THEN RiskLevel.HIGH
    ELSE IF risk_score >= 40 THEN RiskLevel.MEDIUM
    ELSE RiskLevel.LOW

\* _calculate_risk_level
_calculate_risk_level(risk_score) ==
    IF risk_score >= 90 THEN RiskLevel.CRITICAL
    ELSE IF risk_score >= 70 THEN RiskLevel.HIGH
    ELSE IF risk_score >= 40 THEN RiskLevel.MEDIUM
    ELSE RiskLevel.LOW

\* a variant in which plus addressing lowers the score
pattern_weights_discount ==
    [ has_numbers_only_username |-> 20,
      has_random_username       |-> 15,
      has_temp_keywords         |-> 30,
      has_suspicious_tld        |-> 25,
      has_multiple_dots         |-> 10,
      has_plus_addressing       |-> -5,
      has_consecutive_dots      |-> 20,
      has_short_domain          |-> 10,
      has_long_username         |-> 8,
      has_special_chars_excess  |-> 7 ]

\* a variant with the weights of the first application's check_email
pattern_weights_v1 ==
    [ has_numbers_only_username |-> 15,
      has_random_username       |-> 10,
      has_temp_keywords         |-> 25,
      has_suspicious_tld        |-> 20,
      has_multiple_dots         |-> 5,
      has_plus_addressing       |-> 3 ]

pattern_weights ==
    [ has_numbers_only_username |-> 20,
      has_random_username       |-> 15,
      has_temp_keywords         |-> 30,
      has_suspicious_tld        |-> 25,
      has_multiple_dots         |-> 10,
      has_plus_addressing       |-> 5,
      has_consecutive_dots      |-> 20,
      has_short_domain          |-> 10,
      has_long_username         |-> 8,
      has_special_chars_excess  |-> 7 ]

\* True * weight and False * weight
Times(flag, weight) == IF flag THEN weight ELSE 0

RECURSIVE SumOver(_, _)
SumOver(names, f) ==
    IF names = {} THEN 0
    ELSE LET n == CHOOSE n \in names : TRUE
         IN  f[n] + SumOver(names \ {n}, f)

\* sum(patterns.get(pattern, False) * weight for pattern, weight in ...)
pattern_score(patterns) ==
    SumOver(DOMAIN pattern_weights,
            [n \in DOMAIN pattern_weights |->
                Times(n \in DOMAIN patterns /\ patterns[n], pattern_weights[n])])

Min(a, b) == IF a <= b THEN a ELSE b

\* a variant of the format branch that leaves the level LOW
InvalidFormatVerdict_low(r) ==
    [r EXCEPT !.risk_score = 100, !.risk_level = RiskLevel.LOW]

\* the format branch of check_email: the verdict for a malformed address
InvalidFormatVerdict(r) ==
    [r EXCEPT !.risk_score = 100, !.risk_level = RiskLevel.CRITICAL]

\* the branch of check_email for an address without a usable domain
NoDomainVerdict(r) ==
    [r EXCEPT !.risk_score = 100, !.risk_level = RiskLevel.CRITICAL]

\* a variant of the whitelist branch that does not set the whitelist flag
WhitelistVerdict_no_flag(r) ==
    [r EXCEPT !.risk_score = 0, !.risk_level = RiskLevel.LOW]

\* the whitelist branch of check_email
WhitelistVerdict(r) ==
    [r EXCEPT !.checks.domain_whitelist = TRUE,
              !.risk_score = 0,
              !.risk_level = RiskLevel.LOW]

\* the blacklist step of check_email
BlacklistStep(r, domain, disposable) ==
    IF domain \in disposable
      THEN [r EXCEPT !.is_disposable = TRUE,
                     !.checks.domain_blacklist = TRUE,
                     !.risk_score = 95]
      ELSE r

\* lines 343-367 for the flags the analyzer returned: they are recorded, and
\* their weighted sum, capped at 90, is the score unless the blacklist set it
PatternStepOn(r, patterns) ==
    LET r1 == [r EXCEPT !.checks.suspicious_patterns = patterns]
    IN  IF ~r1.is_disposable
          THEN [r1 EXCEPT !.risk_score = Min(pattern_score(patterns), 90)]
          ELSE r1

\* a variant of the pattern step in which the pattern score replaces the
\* score the blacklist set
PatternStep_overwrite(r, email) ==
    LET patterns == PatternsOf[email]
    IN  [r EXCEPT !.checks.suspicious_patterns = patterns,
                  !.risk_score = Min(pattern_score(patterns), 90)]

\* the pattern step of check_email: the flags are recorded, and their
\* weighted sum, capped at 90, is the score unless the blacklist set it
PatternStep(r, email) == PatternStepOn(r, PatternsOf[email])

\* what getaddrinfo does: it returns; it raises socket.gaierror, with
\* EAI_NONAME when the name does not exist and with EAI_AGAIN when the
\* resolver failed temporarily or timed out; or it raises something else
DnsOutcomes == {"resolved", "EAI_NONAME", "EAI_AGAIN", "error"}

\* the outcomes that raise socket.gaierror
gaierror == {"EAI_NONAME", "EAI_AGAIN"}

\* _check_mx_record
_check_mx_record(outcome) ==
    CASE outcome = "resolved" -> MxTrue
      [] outcome \in gaierror -> MxFalse
      [] OTHER                -> MxNone

\* a variant of the reachability step without the cap of 100
MxStep_no_cap(r, mx_exists) ==
    LET r1 == [r EXCEPT !.checks.mx_record_exists = mx_exists]
    IN  IF mx_exists = MxFalse
          THEN [r1 EXCEPT !.risk_score = r1.risk_score + 35]
          ELSE r1

\* a variant of the reachability step that penalises every answer but True
MxStep_not_true(r, mx_exists) ==
    LET r1 == [r EXCEPT !.checks.mx_record_exists = mx_exists]
    IN  IF mx_exists # MxTrue
          THEN [r1 EXCEPT !.risk_score = Min(r1.risk_score + 35, 100)]
          ELSE r1

\* the reachability step of check_email
MxStep(r, mx_exists) ==
    LET r1 == [r EXCEPT !.checks.mx_record_exists = mx_exists]
    IN  IF mx_exists = MxFalse
          THEN [r1 EXCEPT !.risk_score = Min(r1.risk_score + 35, 100)]
          ELSE r1

\* a variant of the final step that needs a score above 70
FinalStep_above(r) ==
    LET r1 == IF r.risk_score > 70 THEN [r EXCEPT !.is_disposable = TRUE] ELSE r
    IN  [r1 EXCEPT !.risk_level = _calculate_risk_level(r1.risk_score)]

\* the final disposable determination and the risk level
FinalStep(r) ==
    LET r1 == IF r.risk_score >= 70 THEN [r EXCEPT !.is_disposable = TRUE] ELSE r
    IN  [r1 EXCEPT !.risk_level = _calculate_risk_level(r1.risk_score)]

\* check_email from the initial result to its first return or to the
\* reachability probe: the verdict so far, and whether the probe is awaited
check_email_sync(e, whitelist, disposable, current_time) ==
    LET r0     == InitialResult(e, current_time)
        domain == DomainOf[e]
        r1     == [r0 EXCEPT !.domain = domain]
    IN  IF ~r0.is_valid_format
          THEN [result |-> InvalidFormatVerdict(r0), await |-> FALSE]
        ELSE IF domain = None \/ ~truthy(domain)
          THEN [result |-> NoDomainVerdict(r1), await |-> FALSE]
        ELSE IF domain \in whitelist
          THEN [result |-> WhitelistVerdict(r1), await |-> FALSE]
        ELSE [result |-> PatternStep(BlacklistStep(r1, domain, disposable), e),
              await  |-> TRUE]

\* check_email from the probe's answer to its return
check_email_after_mx(r, mx_exists) == FinalStep(MxStep(r, mx_exists))

-----------------------------------------------------------------------------
(* Result cache: a dict, kept as the sequence of its items in insertion    *)
(* order                                                                   *)

CacheKeys(c) == {c[i].key : i \in 1..Len(c)}

CacheIndex(c, email) == CHOOSE i \in 1..Len(c) : c[i].key = email

\* self.cache[email]
CacheGet(c, email) == c[CacheIndex(c, email)]

\* a variant of the validity test that still serves an entry of age cache_ttl
_is_cache_valid_inclusive(c, email, time) ==
    /\ email \in CacheKeys(c)
    /\ (time - CacheGet(c, email).timestamp) <= cache_ttl

_is_cache_valid(c, email, time) ==
    /\ email \in CacheKeys(c)
    /\ (time - CacheGet(c, email).timestamp) < cache_ttl

\* self.cache[email] = value: a key already present keeps its place
CacheSet(c, email, value) ==
    LET item == [key |-> email, result |-> value.result, timestamp |-> value.timestamp]
    IN  IF email \in CacheKeys(c)
          THEN [c EXCEPT ![CacheIndex(c, email)] = item]
          ELSE Append(c, item)

\* a variant of the sort without reverse=True
SortedOldestFirst(c) ==
    LET rank(i) == Cardinality({j \in 1..Len(c) : c[j].timestamp < c[i].timestamp})
                   + Cardinality({j \in 1..(i - 1) : c[j].timestamp = c[i].timestamp})
                   + 1
    IN  [k \in 1..Len(c) |-> c[CHOOSE i \in 1..Len(c) : rank(i) = k]]

\* sorted(items, key=timestamp, reverse=True): stable, so items with equal
\* timestamps keep their order
SortedNewestFirst(c) ==
    LET rank(i) == Cardinality({j \in 1..Len(c) : c[j].timestamp > c[i].timestamp})
                   + Cardinality({j \in 1..(i - 1) : c[j].timestamp = c[i].timestamp})
                   + 1
    IN  [k \in 1..Len(c) |-> c[CHOOSE i \in 1..Len(c) : rank(i) = k]]

_clean_cache(c, current_time) ==
    LET cutoff == current_time - cache_ttl
        fresh  == SelectSeq(c, LAMBDA v : v.timestamp > cutoff)
    IN  IF Len(fresh) > max_cache_size
          THEN SubSeq(SortedNewestFirst(fresh), 1, max_cache_size)
          ELSE fresh

_cache_result(c, email, result, time) ==
    LET c1 == CacheSet(c, email, [result |-> to_dict(result), timestamp |-> time])
    IN  IF Len(c1) > max_cache_size THEN _clean_cache(c1, time) ELSE c1

-----------------------------------------------------------------------------
(* Persistence of the domain lists (utils.py)                              *)

\* the characters of the model's strings in code-point order, the order in
\* which Python compares str
CodePoints ==
    <<"\t", "\n", "\r", " ", "!", "#", "$", "%", "&", "'", "*", "+", "-", ".", "/",
      "0", "1", "2", "3", "4", "5", "6", "7", "8", "9", "=", "?", "@">>
    \o UpperSeq \o <<"^", "_", Grave>> \o LowerSeq \o <<"{", "|", "}", "~">>

\* the place of every character in that order
OrdOf ==
    [c \in {CodePoints[i] : i \in 1..Len(CodePoints)} |->
        CHOOSE i \in 1..Len(CodePoints) : CodePoints[i] = c]

Ord(c) == OrdOf[c]

\* a < b for two str
StrLess(a, b) ==
    \/ \E i \in 1..Min(Len(a), Len(b)) :
          /\ \A j \in 1..(i - 1) : a[j] = b[j]
          /\ Ord(a[i]) < Ord(b[i])
    \/ /\ Len(a) < Len(b)
       /\ \A j \in 1..Len(a) : a[j] = b[j]

\* sorted(list(domains))
sorted(domains) ==
    LET rank(d) == Cardinality({x \in domains : StrLess(x, d)}) + 1
    IN  [k \in 1..Cardinality(domains) |-> CHOOSE d \in domains : rank(d) = k]

\* what opening and writing the file can do
WriteOutcomes == {"written", "failed"}

\* what a path can hold besides a JSON array of strings: no file; a file
\* that cannot be read or is not JSON; a path whose stat fails with an
\* error other than "not found" (a directory that may not be searched)
Absent == << <<"ENOENT">> >>

Corrupt == << <<"not JSON">> >>

Unreachable == << <<"EACCES">> >>

\* the opening and writing with the case that the file is opened, and so
\* truncated, and the dump then fails
DiskOutcomes == WriteOutcomes \cup {"partial"}

\* write_domains(file_path, domains): the file's new content, a JSON array;
\* a failure is logged and leaves the file as it was, or cut short
write_domains(file, domains, outcome) ==
    IF outcome = "written" THEN sorted(domains)
    ELSE IF outcome = "partial" THEN Corrupt
    ELSE file

\* load_domains(file_path) of a readable file: set(json.load(f))
load_domains(file) == {file[i] : i \in 1..Len(file)}

\* load_domains(file_path) as a whole: whether it raises, the set it
\* returns, and what the path holds afterwards; `create` is the outcome of
\* writing the empty array when there is no file.  path.exists() stands
\* outside the try blocks.
load_domains_call(file, create) ==
    IF file = Unreachable
      THEN [raised |-> TRUE, value |-> {}, file |-> file]
    ELSE IF file = Absent
      THEN IF create = "written"
             THEN [raised |-> FALSE, value |-> load_domains(<<>>), file |-> <<>>]
             ELSE [raised |-> FALSE, value |-> {}, file |-> file]
    ELSE IF file = Corrupt
      THEN [raised |-> FALSE, value |-> {}, file |-> file]
    ELSE [raised |-> FALSE, value |-> load_domains(file), file |-> file]

-----------------------------------------------------------------------------
(* State                                                                   *)

VARIABLES
    disposable_domains,  \* self.disposable_domains
    whitelist_domains,   \* self.whitelist_domains
    disposable_file,     \* the JSON array in DISPOSABLE_DOMAINS_FILE
    whitelist_file,      \* the JSON array in WHITELIST_DOMAINS_FILE
    cache,               \* self.cache
    last_update,         \* self.last_update
    now,                 \* time.time()
    pc,                  \* where each check_email call stands
    email,               \* the email argument of each call
    result,              \* the result of each call, as built so far
    dns,                 \* what getaddrinfo did for each call, "none" before
    rpc,                 \* where each caller of a refresh operation stands
    updated,             \* the bool each refresh operation returned
    offered,             \* history: every domain loaded, fetched or added
    completed,           \* history: when the last refresh cycle completed
    phase,               \* "up" while the application runs, "down" after shutdown
    upc,                 \* where each source's _fetch_from_url stands
    attempt,             \* its loop variable
    slept,               \* history: the delays it has slept
    ures,                \* what it returned
    got,                 \* history: the answer to its latest attempt
    rate_limit_storage,  \* helper.rate_limit_storage
    served,              \* every call of check_rate_limit so far: client, time, answer
    batch,               \* the body of the bulk request being served
    bpc,                 \* where the process_email task of each item stands
    entries,             \* what each of them returned
    response             \* the response to the bulk request

\* no answer yet
NoAnswer == [kind |-> "none", text |-> <<>>]

\* no request body is being served, and no response has been built
NoBody == [emails |-> <<>>, options |-> {}]

NoResponse == [status |-> 0, results |-> <<>>, total_checked |-> 0]

\* the state of the _fetch_from_url coroutines
url_vars == <<upc, attempt, slept, ures, got>>

\* the state of the HTTP layer
web_vars == <<rate_limit_storage, served, batch, bpc, entries, response>>

\* the state of the checker
checker_vars ==
    <<disposable_domains, whitelist_domains, disposable_file, whitelist_file,
      cache, last_update, now, pc, email, result, dns, rpc, updated, offered,
      completed>>

vars == <<checker_vars, phase, url_vars, web_vars>>

\* len(DISPOSABLE_DOMAINS_URLS)
NumUrls == 4

\* what one source can contribute to a refresh: the empty set when its
\* fetch failed or the list was empty, its parsed domains otherwise
FetchedSets == { {}, {D_temp_x_tk} }

\* the addresses and domains of the system specification
SysEmails == {E_no_at, E_capped}

SysWhitelistArgs == { {D_temp_x_tk} }

SysBlacklistArgs == { {D_temp_x_tk} }

\* the first reading of the clock: the Unix time, more than update_interval
\* past the last_update of 0 a new instance holds
StartTime == update_interval + 1

\* DisposableEmailChecker.__init__: both sets loaded from their files, an
\* empty cache, last_update 0; the given callers of check_email and of the
\* refresh operations have not called yet
InitService(dfile, wfile, tasks, refreshers) ==
    /\ disposable_file = dfile
    /\ whitelist_file = wfile
    /\ disposable_domains = load_domains(dfile)
    /\ whitelist_domains = load_domains(wfile)
    /\ cache = <<>>
    /\ last_update = 0
    /\ now = StartTime
    /\ pc = [t \in tasks |-> "idle"]
    /\ email = [t \in tasks |-> <<>>]
    /\ result = [t \in tasks |-> NoResult]
    /\ dns = [t \in tasks |-> "none"]
    /\ rpc = [r \in refreshers |-> "idle"]
    /\ updated = [r \in refreshers |-> FALSE]
    /\ offered = load_domains(dfile)
    /\ completed = 0
    /\ phase = "up"
    /\ upc = [u \in 1..NumUrls |-> "idle"]
    /\ attempt = [u \in 1..NumUrls |-> 0]
    /\ slept = [u \in 1..NumUrls |-> <<>>]
    /\ ures = [u \in 1..NumUrls |-> {}]
    /\ got = [u \in 1..NumUrls |-> NoAnswer]
    /\ rate_limit_storage = {}
    /\ served = <<>>
    /\ batch = NoBody
    /\ bpc = <<>>
    /\ entries = <<>>
    /\ response = NoResponse

\* the same without callers of the refresh operations
InitChecker(dfile, wfile, tasks) == InitService(dfile, wfile, tasks, {})

Init == InitChecker(<<D_mailinator>>, <<>>, Tasks)

-----------------------------------------------------------------------------
(* check_email                                                             *)

\* check_email from line 294 on, run with the disposable set as it stands
\* after update_domains_if_needed: it returns (and caches) at once, or it
\* awaits the reachability probe
Compute(t, e, disposable) ==
    LET out == check_email_sync(e, whitelist_domains, disposable, now)
    IN  /\ email' = [email EXCEPT ![t] = e]
        /\ result' = [result EXCEPT ![t] = out.result]
        /\ IF out.await
             THEN /\ pc' = [pc EXCEPT ![t] = "mx"]
                  /\ cache' = cache
             ELSE /\ pc' = [pc EXCEPT ![t] = "done"]
                  /\ cache' = _cache_result(cache, e, out.result, now)

\* a variant of check_email in which a hit stamps the entry again
check_email_touch(t, e) ==
    /\ pc[t] = "idle"
    /\ IF _is_cache_valid(cache, e, now)
         THEN /\ pc' = [pc EXCEPT ![t] = "done"]
              /\ email' = [email EXCEPT ![t] = e]
              /\ result' = [result EXCEPT ![t] = EmailCheckResult(CacheGet(cache, e).result)]
              /\ cache' = CacheSet(cache, e, [result |-> CacheGet(cache, e).result,
                                              timestamp |-> now])
         ELSE IF now - last_update > update_interval
           THEN /\ pc' = [pc EXCEPT ![t] = "fetch"]
                /\ email' = [email EXCEPT ![t] = e]
                /\ UNCHANGED <<result, cache>>
           ELSE Compute(t, e, disposable_domains)
    /\ UNCHANGED <<disposable_domains, whitelist_domains, disposable_file,
                   whitelist_file, last_update, now, dns, rpc, updated, offered>>
    /\ UNCHANGED <<completed, phase, url_vars>>

\* check_email(e) is called: a valid cache entry is returned; otherwise
\* update_domains_if_needed either awaits a refresh that is due or lets the
\* check go on
check_email(t, e) ==
    /\ pc[t] = "idle"
    /\ IF _is_cache_valid(cache, e, now)
         THEN /\ pc' = [pc EXCEPT ![t] = "done"]
              /\ email' = [email EXCEPT ![t] = e]
              /\ result' = [result EXCEPT ![t] = EmailCheckResult(CacheGet(cache, e).result)]
              /\ UNCHANGED cache
         ELSE IF now - last_update > update_interval
           THEN /\ pc' = [pc EXCEPT ![t] = "fetch"]
                /\ email' = [email EXCEPT ![t] = e]
                /\ UNCHANGED <<result, cache>>
           ELSE Compute(t, e, disposable_domains)
    /\ UNCHANGED <<disposable_domains, whitelist_domains, disposable_file,
                   whitelist_file, last_update, now, dns, rpc, updated, offered>>
    /\ UNCHANGED <<completed, phase, url_vars>>

\* a caller other than the bulk endpoint calls check_email(e)
CheckEmailCall(t, e) ==
    /\ check_email(t, e)
    /\ UNCHANGED web_vars

\* a variant of the merge loop that keeps only what the sources delivered
MergeResults_replace(disposable, results) ==
    UNION {results[i] : i \in 1..Len(results)}

\* a variant of the merge loop that merges the last source's result only
MergeResults_last_source(disposable, results) ==
    disposable \cup results[Len(results)]

\* the merge loop of _fetch_external_lists
MergeResults(disposable, results) ==
    disposable \cup UNION {results[i] : i \in 1..Len(results)}

\* what asyncio.gather can return: one set for each source
Gathered(sets) == [1..NumUrls -> sets]

\* the domains the sources delivered
Fetched(results) == UNION {results[i] : i \in 1..Len(results)}

\* one list of results for every total the sources can deliver
GatherReps(sets) ==
    {CHOOSE results \in Gathered(sets) : Fetched(results) = u :
        u \in {Fetched(results) : results \in Gathered(sets)}}

FetchResults == GatherReps(FetchedSets)

\* a variant that undoes the merge when the save fails
FetchExternalLists_rollback(results, w) ==
    /\ disposable_domains' =
          IF w = "written" THEN MergeResults(disposable_domains, results)
                           ELSE disposable_domains
    /\ last_update' = IF w = "written" THEN now ELSE last_update
    /\ disposable_file' = write_domains(disposable_file, disposable_domains', w)
    /\ offered' = offered \cup Fetched(results)
    /\ completed' = IF w = "written" THEN now ELSE completed

\* _fetch_external_lists after the gather: the results are merged,
\* last_update is set and the set is saved
FetchExternalLists(results, w) ==
    /\ disposable_domains' = MergeResults(disposable_domains, results)
    /\ last_update' = now
    /\ disposable_file' = write_domains(disposable_file, disposable_domains', w)
    /\ offered' = offered \cup Fetched(results)
    /\ completed' = now

\* _fetch_external_lists completes inside update_domains_if_needed, and
\* the check goes on
FetchDone(t, w) ==
    /\ pc[t] = "fetch"
    /\ \E results \in FetchResults :
          /\ FetchExternalLists(results, w)
          /\ Compute(t, email[t], disposable_domains')
    /\ UNCHANGED <<whitelist_domains, whitelist_file, now, dns, rpc, updated>>
    /\ UNCHANGED <<phase, url_vars, web_vars>>

\* _fetch_external_lists raises before the merge (the HTTP client cannot
\* be set up) and returns False; check_email does not look at the result
\* and goes on
FetchFailed(t) ==
    /\ pc[t] = "fetch"
    /\ Compute(t, email[t], disposable_domains)
    /\ UNCHANGED <<disposable_domains, whitelist_domains, disposable_file,
                   whitelist_file, last_update, now, dns, rpc, updated, offered>>
    /\ UNCHANGED <<completed, phase, url_vars, web_vars>>

\* the reachability probe answers: the score is adjusted, the verdict is
\* finished, cached and returned
MxDone(t) ==
    /\ pc[t] = "mx"
    /\ \E outcome \in DnsOutcomes :
          LET r == check_email_after_mx(result[t], _check_mx_record(outcome))
          IN  /\ result' = [result EXCEPT ![t] = r]
              /\ cache' = _cache_result(cache, email[t], r, now)
              /\ dns' = [dns EXCEPT ![t] = outcome]
    /\ pc' = [pc EXCEPT ![t] = "done"]
    /\ UNCHANGED <<disposable_domains, whitelist_domains, disposable_file,
                   whitelist_file, last_update, now, email, rpc, updated, offered>>
    /\ UNCHANGED <<completed, phase, url_vars, web_vars>>

\* getaddrinfo never returns for t's probe: the executor call carries no
\* timeout, so the await of _check_mx_record goes on
MxHang(t) ==
    /\ pc[t] = "mx"
    /\ dns[t] = "none"
    /\ dns' = [dns EXCEPT ![t] = "no_answer"]
    /\ UNCHANGED <<disposable_domains, whitelist_domains, disposable_file,
                   whitelist_file, cache, last_update, now, pc, email, result,
                   rpc, updated, offered>>
    /\ UNCHANGED <<completed, phase, url_vars, web_vars>>

\* getaddrinfo returns for t's probe
MxAnswer(t) == dns[t] = "none" /\ MxDone(t)

\* the caller takes the verdict
Return(t) ==
    /\ pc[t] = "done"
    /\ pc' = [pc EXCEPT ![t] = "idle"]
    /\ email' = [email EXCEPT ![t] = <<>>]
    /\ result' = [result EXCEPT ![t] = NoResult]
    /\ dns' = [dns EXCEPT ![t] = "none"]
    /\ UNCHANGED <<disposable_domains, whitelist_domains, disposable_file,
                   whitelist_file, cache, last_update, now, rpc, updated, offered>>
    /\ UNCHANGED <<completed, phase, url_vars, web_vars>>

-----------------------------------------------------------------------------
(* The refresh operations, called on their own                             *)

\* update_domains_if_needed() is called: it awaits a refresh that is due,
\* and returns True at once when none is
UpdateCall(r) ==
    /\ rpc[r] = "idle"
    /\ IF now - last_update > update_interval
         THEN /\ rpc' = [rpc EXCEPT ![r] = "fetch"]
              /\ UNCHANGED updated
         ELSE /\ rpc' = [rpc EXCEPT ![r] = "done"]
              /\ updated' = [updated EXCEPT ![r] = TRUE]
    /\ UNCHANGED <<disposable_domains, whitelist_domains, disposable_file,
                   whitelist_file, cache, last_update, now, pc, email, result,
                   dns, offered>>
    /\ UNCHANGED <<completed, phase, url_vars, web_vars>>

\* force_update_domains() is called: last_update is reset and the refresh
\* is awaited
ForceCall(r) ==
    /\ rpc[r] = "idle"
    /\ last_update' = 0
    /\ rpc' = [rpc EXCEPT ![r] = "fetch"]
    /\ UNCHANGED <<disposable_domains, whitelist_domains, disposable_file,
                   whitelist_file, cache, now, pc, email, result, dns, updated,
                   offered>>
    /\ UNCHANGED <<completed, phase, url_vars, web_vars>>

\* r's _fetch_external_lists completes with the given results of its
\* sources and returns True
RefreshDone(r, results, w) ==
    /\ rpc[r] = "fetch"
    /\ FetchExternalLists(results, w)
    /\ rpc' = [rpc EXCEPT ![r] = "done"]
    /\ updated' = [updated EXCEPT ![r] = TRUE]
    /\ UNCHANGED <<whitelist_domains, whitelist_file, cache, now, pc, email,
                   result, dns>>
    /\ UNCHANGED <<phase, url_vars, web_vars>>

\* r's _fetch_external_lists raises before the merge and returns False
RefreshFailed(r) ==
    /\ rpc[r] = "fetch"
    /\ rpc' = [rpc EXCEPT ![r] = "done"]
    /\ updated' = [updated EXCEPT ![r] = FALSE]
    /\ UNCHANGED <<disposable_domains, whitelist_domains, disposable_file,
                   whitelist_file, cache, last_update, now, pc, email, result,
                   dns, offered>>
    /\ UNCHANGED <<completed, phase, url_vars, web_vars>>

\* the caller takes the bool
RefreshReturn(r) ==
    /\ rpc[r] = "done"
    /\ rpc' = [rpc EXCEPT ![r] = "idle"]
    /\ updated' = [updated EXCEPT ![r] = FALSE]
    /\ UNCHANGED <<disposable_domains, whitelist_domains, disposable_file,
                   whitelist_file, cache, last_update, now, pc, email, result,
                   dns, offered>>
    /\ UNCHANGED <<completed, phase, url_vars, web_vars>>

-----------------------------------------------------------------------------
(* Administrative operations and the clock                                 *)

add_to_whitelist(domains, w) ==
    /\ whitelist_domains' = whitelist_domains \cup domains
    /\ whitelist_file' = write_domains(whitelist_file, whitelist_domains', w)
    /\ UNCHANGED <<disposable_domains, disposable_file, cache, last_update, now,
                   pc, email, result, dns, rpc, updated, offered>>
    /\ UNCHANGED <<completed, phase, url_vars, web_vars>>

add_to_blacklist(domains, w) ==
    /\ disposable_domains' = disposable_domains \cup domains
    /\ disposable_file' = write_domains(disposable_file, disposable_domains', w)
    /\ offered' = offered \cup domains
    /\ UNCHANGED <<whitelist_domains, whitelist_file, cache, last_update, now,
                   pc, email, result, dns, rpc, updated>>
    /\ UNCHANGED <<completed, phase, url_vars, web_vars>>

Tick ==
    /\ now < StartTime + MaxTicks
    /\ now' = now + 1
    /\ UNCHANGED <<disposable_domains, whitelist_domains, disposable_file,
                   whitelist_file, cache, last_update, pc, email, result,
                   dns, rpc, updated, offered>>
    /\ UNCHANGED <<completed, phase, url_vars, web_vars>>

\* the clock where the cache is watched
CacheTick ==
    /\ now < StartTime + MaxCacheTicks
    /\ now' = now + 1
    /\ UNCHANGED <<disposable_domains, whitelist_domains, disposable_file,
                   whitelist_file, cache, last_update, pc, email, result,
                   dns, rpc, updated, offered>>
    /\ UNCHANGED <<completed, phase, url_vars, web_vars>>

-----------------------------------------------------------------------------
(* _fetch_from_url                                                         *)

\* the defaults of its parameters
retries == 3

delay == 2

\* a variant that sleeps the same delay after every attempt
Backoff_constant(k) == delay

\* the argument of asyncio.sleep after attempt k
Backoff(k) == delay * k

\* content.splitlines() of a text whose only line boundary is "\n"
splitlines(content) ==
    LET pieces == split(content, "\n")
    IN  IF pieces[Len(pieces)] = <<>> THEN SubSeq(pieces, 1, Len(pieces) - 1)
        ELSE pieces

\* the set comprehension of lines 173-177
ParseDomains(content) ==
    LET lines == splitlines(content)
    IN  { lower(strip(lines[i])) :
            i \in { j \in 1..Len(lines) :
                      /\ strip(lines[j]) # <<>>
                      /\ ~startswith(lines[j], <<"#">>)
                      /\ "." \in {lines[j][k] : k \in 1..Len(lines[j])} } }

\* what client.get(url, timeout=15) can end in: a response with status 200
\* and the given text, a response with another status, or an exception
HttpAnswers(texts) ==
    {[kind |-> "200", text |-> c] : c \in texts}
      \cup {[kind |-> k, text |-> <<>>] :
               k \in {"non-200", "TimeoutException", "HTTPError", "Exception"}}

\* _fetch_from_url(client, url) is called for source u
UrlCall(u) ==
    /\ upc[u] = "idle"
    /\ upc' = [upc EXCEPT ![u] = "get"]
    /\ attempt' = [attempt EXCEPT ![u] = 1]
    /\ slept' = [slept EXCEPT ![u] = <<>>]
    /\ got' = [got EXCEPT ![u] = NoAnswer]
    /\ UNCHANGED <<ures, checker_vars, phase, web_vars>>

\* the attempt of source u ends with the given answer: the parsed domains
\* are returned on status 200; otherwise the loop sleeps and goes on, or
\* ends after the last attempt and the empty set is returned
UrlAnswer(u, answer) ==
    /\ upc[u] = "get"
    /\ got' = [got EXCEPT ![u] = answer]
    /\ IF answer.kind = "200"
         THEN /\ ures' = [ures EXCEPT ![u] = ParseDomains(answer.text)]
              /\ upc' = [upc EXCEPT ![u] = "done"]
              /\ UNCHANGED slept
         ELSE IF attempt[u] < retries
           THEN /\ slept' = [slept EXCEPT ![u] = Append(@, Backoff(attempt[u]))]
                /\ upc' = [upc EXCEPT ![u] = "sleep"]
                /\ UNCHANGED ures
           ELSE /\ ures' = [ures EXCEPT ![u] = {}]
                /\ upc' = [upc EXCEPT ![u] = "done"]
                /\ UNCHANGED slept
    /\ UNCHANGED <<attempt, checker_vars, phase, web_vars>>

\* the sleep of source u is over and the next attempt begins
UrlWake(u) ==
    /\ upc[u] = "sleep"
    /\ upc' = [upc EXCEPT ![u] = "get"]
    /\ attempt' = [attempt EXCEPT ![u] = @ + 1]
    /\ UNCHANGED <<slept, ures, got, checker_vars, phase, web_vars>>

\* the caller takes the set
UrlReturn(u) ==
    /\ upc[u] = "done"
    /\ upc' = [upc EXCEPT ![u] = "idle"]
    /\ attempt' = [attempt EXCEPT ![u] = 0]
    /\ slept' = [slept EXCEPT ![u] = <<>>]
    /\ ures' = [ures EXCEPT ![u] = {}]
    /\ got' = [got EXCEPT ![u] = NoAnswer]
    /\ UNCHANGED <<checker_vars, phase, web_vars>>

-----------------------------------------------------------------------------
(* The life of the process                                                 *)

\* clear_cache()
clear_cache ==
    /\ cache' = <<>>
    /\ UNCHANGED <<disposable_domains, whitelist_domains, disposable_file,
                   whitelist_file, last_update, now, pc, email, result, dns,
                   rpc, updated, offered, completed, phase, url_vars, web_vars>>

\* a variant of cleanup that lets go of the lists once they are saved
Shutdown_release(wd, ww) ==
    /\ phase = "up"
    /\ \A t \in DOMAIN pc : pc[t] = "idle"
    /\ \A r \in DOMAIN rpc : rpc[r] = "idle"
    /\ cache' = <<>>
    /\ disposable_file' = write_domains(disposable_file, disposable_domains, wd)
    /\ whitelist_file' = write_domains(whitelist_file, whitelist_domains, ww)
    /\ disposable_domains' = {}
    /\ whitelist_domains' = {}
    /\ phase' = "down"
    /\ UNCHANGED <<last_update, now, pc,
                   email, result, dns, rpc, updated, offered, completed>>
    /\ UNCHANGED <<url_vars, web_vars>>

\* cleanup(), run by the shutdown event when no call is in flight: the
\* cache is cleared and both lists are saved
Shutdown(wd, ww) ==
    /\ phase = "up"
    /\ \A t \in DOMAIN pc : pc[t] = "idle"
    /\ \A r \in DOMAIN rpc : rpc[r] = "idle"
    /\ cache' = <<>>
    /\ disposable_file' = write_domains(disposable_file, disposable_domains, wd)
    /\ whitelist_file' = write_domains(whitelist_file, whitelist_domains, ww)
    /\ phase' = "down"
    /\ UNCHANGED <<disposable_domains, whitelist_domains, last_update, now, pc,
                   email, result, dns, rpc, updated, offered, completed>>
    /\ UNCHANGED <<url_vars, web_vars>>

\* the process starts and helper.py constructs the checker: __init__ and
\* _initialize_domains, which loads the two files inside one try block
Construct(cd, cw) ==
    /\ phase = "down"
    /\ LET d == load_domains_call(disposable_file, cd)
           w == load_domains_call(whitelist_file, cw)
       IN  /\ disposable_file' = d.file
           /\ disposable_domains' = d.value
           /\ whitelist_file' = IF d.raised THEN whitelist_file ELSE w.file
           /\ whitelist_domains' = IF d.raised THEN {} ELSE w.value
           /\ offered' = d.value
    /\ cache' = <<>>
    /\ last_update' = 0
    /\ completed' = 0
    /\ rate_limit_storage' = {}
    /\ served' = <<>>
    /\ phase' = "up"
    /\ UNCHANGED <<now, pc, email, result, dns, rpc, updated>>
    /\ UNCHANGED <<url_vars, batch, bpc, entries, response>>

-----------------------------------------------------------------------------
(* Specifications                                                          *)

\* the write outcomes of the specifications below: every save succeeds
Saved == {"written"}

\* The checker in service: calls of check_email by the given tasks, the
\* administrative additions and the clock.
SysNext(tasks) ==
    \/ \E t \in tasks, e \in SysEmails : CheckEmailCall(t, e)
    \/ \E t \in tasks, w \in Saved : FetchDone(t, w)
    \/ \E t \in tasks : FetchFailed(t)
    \/ \E t \in tasks : MxDone(t)
    \/ \E t \in tasks : Return(t)
    \/ \E domains \in SysWhitelistArgs, w \in Saved : add_to_whitelist(domains, w)
    \/ \E domains \in SysBlacklistArgs, w \in Saved : add_to_blacklist(domains, w)
    \/ Tick

Next == SysNext(Tasks)

Spec == Init /\ [][Next]_vars

\* The same with one more caller, so that two calls can be in flight at
\* the same time.
ConcTasks == 1..(NumTasks + 1)

ConcInit == InitChecker(<<D_mailinator>>, <<>>, ConcTasks)

ConcNext == SysNext(ConcTasks)

ConcSpec == ConcInit /\ [][ConcNext]_vars

\* One check_email call on a new instance, for every address of AllEmails
\* and every content of the two files.
ScoreBlacklists == SUBSET {D_mailinator, D_temp_tk}

ScoreWhitelists == SUBSET {D_example, D_temp_tk, D_b_co}

ScoreInit ==
    \E d \in ScoreBlacklists, wl \in ScoreWhitelists :
        InitChecker(sorted(d), sorted(wl), Tasks)

ScoreNext ==
    \/ \E e \in AllEmails : cache = <<>> /\ CheckEmailCall(1, e)
    \/ \E w \in Saved : FetchDone(1, w)
    \/ FetchFailed(1)
    \/ MxDone(1)
    \/ Tick

ScoreSpec == ScoreInit /\ [][ScoreNext]_vars

\* One caller checking addresses one after the other, some of them equal up
\* to letter case or surrounding whitespace, while cache entries age and
\* expire.
CacheEmails == {E_no_at, E_upper, E_lower, E_admin, E_newline}

CacheNext ==
    \/ \E e \in CacheEmails : CheckEmailCall(1, e)
    \/ \E w \in Saved : FetchDone(1, w)
    \/ FetchFailed(1)
    \/ MxDone(1)
    \/ Return(1)
    \/ CacheTick

CacheSpec == Init /\ [][CacheNext]_vars

\* The refresh operations called on their own, by callers that overlap with
\* each other, with one caller's checks of a malformed address and with
\* additions to the blacklist.
RefreshSets == { {}, {D_temp_tk}, {D_a_tk} }

RefreshResults == GatherReps(RefreshSets)

RefreshEmails == {E_no_at}

RefreshInit == InitService(<<D_mailinator>>, <<>>, Tasks, Refreshers)

RefreshNext ==
    \/ \E r \in Refreshers : UpdateCall(r)
    \/ \E r \in Refreshers : ForceCall(r)
    \/ \E r \in Refreshers, results \in RefreshResults, w \in Saved :
          RefreshDone(r, results, w)
    \/ \E r \in Refreshers : RefreshFailed(r)
    \/ \E r \in Refreshers : RefreshReturn(r)
    \/ \E e \in RefreshEmails : CheckEmailCall(1, e)
    \/ \E w \in Saved : FetchDone(1, w)
    \/ FetchFailed(1)
    \/ Return(1)
    \/ \E domains \in SysBlacklistArgs, w \in Saved : add_to_blacklist(domains, w)
    \/ Tick

RefreshSpec == RefreshInit /\ [][RefreshNext]_vars

\* The administrator adds domains as typed, in mixed case or with blanks
\* around them, while one caller checks addresses at the same domain.
AdminArgs == { {D_Example_COM}, {D_example_padded} }

AdminEmails == {E_admin}

AdminNext ==
    \/ \E domains \in AdminArgs, w \in Saved : add_to_whitelist(domains, w)
    \/ \E domains \in AdminArgs, w \in Saved : add_to_blacklist(domains, w)
    \/ \E e \in AdminEmails : CheckEmailCall(1, e)
    \/ \E w \in Saved : FetchDone(1, w)
    \/ FetchFailed(1)
    \/ MxDone(1)
    \/ Return(1)

AdminSpec == Init /\ [][AdminNext]_vars

\* The refresh operations and the administrative additions when the save
\* of a list can fail.
PersistNext ==
    \/ \E r \in Refreshers : UpdateCall(r)
    \/ \E r \in Refreshers : ForceCall(r)
    \/ \E r \in Refreshers, results \in RefreshResults, w \in WriteOutcomes :
          RefreshDone(r, results, w)
    \/ \E r \in Refreshers : RefreshFailed(r)
    \/ \E r \in Refreshers : RefreshReturn(r)
    \/ \E domains \in SysWhitelistArgs, w \in WriteOutcomes :
          add_to_whitelist(domains, w)
    \/ \E domains \in SysBlacklistArgs, w \in WriteOutcomes :
          add_to_blacklist(domains, w)
    \/ Tick

PersistSpec == RefreshInit /\ [][PersistNext]_vars

\* The checker in service where a resolver may never answer: a probe ends
\* when getaddrinfo returns, and the executor runs every probe it is given.
LiveNext ==
    \/ \E t \in Tasks, e \in SysEmails : CheckEmailCall(t, e)
    \/ \E t \in Tasks, w \in Saved : FetchDone(t, w)
    \/ \E t \in Tasks : FetchFailed(t)
    \/ \E t \in Tasks : MxAnswer(t)
    \/ \E t \in Tasks : MxHang(t)
    \/ \E t \in Tasks : Return(t)
    \/ \E domains \in SysBlacklistArgs, w \in Saved : add_to_blacklist(domains, w)
    \/ Tick

LiveSpec ==
    /\ Init
    /\ [][LiveNext]_vars
    /\ \A t \in Tasks : WF_vars(MxAnswer(t))

\* The process over its life on a disk in any state: it starts, lists are
\* added to and saved, it shuts down and starts again.
DiskStates ==
    { Absent, Corrupt, Unreachable, <<>>, <<D_mailinator>>,
      <<D_temp_tk, D_a_tk>>, <<D_Example_COM, D_Example_COM>> }

FileArgs == { {D_Example_COM}, {D_temp_tk, D_a_tk} }

FileInit ==
    /\ disposable_file \in DiskStates
    /\ whitelist_file \in {Absent, <<D_example>>}
    /\ disposable_domains = {}
    /\ whitelist_domains = {}
    /\ cache = <<>>
    /\ last_update = 0
    /\ now = StartTime
    /\ pc = [t \in Tasks |-> "idle"]
    /\ email = [t \in Tasks |-> <<>>]
    /\ result = [t \in Tasks |-> NoResult]
    /\ dns = [t \in Tasks |-> "none"]
    /\ rpc = <<>>
    /\ updated = <<>>
    /\ offered = {}
    /\ completed = 0
    /\ phase = "down"
    /\ upc = [u \in 1..NumUrls |-> "idle"]
    /\ attempt = [u \in 1..NumUrls |-> 0]
    /\ slept = [u \in 1..NumUrls |-> <<>>]
    /\ ures = [u \in 1..NumUrls |-> {}]
    /\ got = [u \in 1..NumUrls |-> NoAnswer]
    /\ rate_limit_storage = {}
    /\ served = <<>>
    /\ batch = NoBody
    /\ bpc = <<>>
    /\ entries = <<>>
    /\ response = NoResponse

FileNext ==
    \/ \E cd, cw \in WriteOutcomes : Construct(cd, cw)
    \/ \E wd, ww \in DiskOutcomes : Shutdown(wd, ww)
    \/ \E domains \in FileArgs, w \in DiskOutcomes :
          phase = "up" /\ add_to_blacklist(domains, w)
    \/ \E domains \in FileArgs, w \in DiskOutcomes :
          phase = "up" /\ add_to_whitelist(domains, w)

FileSpec == FileInit /\ [][FileNext]_vars

\* Calls of _fetch_from_url running side by side, each answered in any way
\* on every attempt.
NumFetches == 2

Fetches == 1..NumFetches

\* 'Temp.TK ', an empty line, a comment, an indented comment, a word
\* without a dot, and 'a.tk'
Text_list ==
    <<"T", "e", "m", "p", ".", "T", "K", " ", "\n", "\n">>
      \o <<"#", " ", "c", ".", "x", "\n">>
      \o <<" ", " ", "#", "d", ".", "x", "\n">>
      \o <<"n", "o", "d", "o", "t", "\n">>
      \o D_a_tk \o <<"\n">>

UrlTexts == {Text_list, <<>>}

UrlNext ==
    \/ \E u \in Fetches : UrlCall(u)
    \/ \E u \in Fetches, answer \in HttpAnswers(UrlTexts) : UrlAnswer(u, answer)
    \/ \E u \in Fetches : UrlWake(u)
    \/ \E u \in Fetches : UrlReturn(u)

UrlSpec == Init /\ [][UrlNext]_vars

-----------------------------------------------------------------------------
(* Properties                                                              *)

\* the callers
Callers == DOMAIN pc

\* t's call returns in this step without having been suspended: it is
\* called and answered in one step
AnsweredAtOnce(t) == pc[t] = "idle" /\ pc'[t] = "done"

\* t's call runs check_email from line 294 in this step: it missed the
\* cache, and update_domains_if_needed has returned
Computes(t) ==
    \/ /\ pc[t] = "idle"
       /\ pc'[t] \in {"mx", "done"}
       /\ ~_is_cache_valid(cache, email'[t], now)
    \/ /\ pc[t] = "fetch"
       /\ pc'[t] \in {"mx", "done"}

\* t's call gets the probe's answer and returns in this step
Probed(t) == pc[t] = "mx" /\ pc'[t] = "done"

\* the checks bag check_email starts from
InitialChecks ==
    [ domain_blacklist    |-> FALSE,
      domain_whitelist    |-> FALSE,
      suspicious_patterns |-> EmptyDict,
      mx_record_exists    |-> MxNone ]

\* C1: every verdict check_email returns for an address whose domain is in
\* the whitelist when the call is made has risk score 0 and is not
\* disposable, also when the address was checked and cached before its
\* domain was whitelisted.  Stated for the calls that are answered in the
\* step in which they are made, where the whitelist at the time of the
\* call is the whitelist of that step.
C1_WhitelistedScoresZero ==
    [][\A t \in Callers :
          (AnsweredAtOnce(t) /\ DomainOf[email'[t]] \in whitelist_domains)
            => (result'[t].risk_score = 0 /\ ~result'[t].is_disposable)]_vars

\* C2: a call that misses the cache on a well-formed address whose domain
\* is in the whitelist stops at the whitelist step: it returns at once, with
\* score 0, level LOW, not disposable, the whitelist flag set, the blacklist
\* flag clear, no pattern flags and reachability unknown, and it is this
\* verdict that is put into the cache.
C2_WhitelistStops ==
    [][\A t \in Callers :
          (/\ Computes(t)
           /\ ValidFormatOf[email'[t]]
           /\ DomainOf[email'[t]] \in whitelist_domains)
            => /\ pc'[t] = "done"
               /\ result'[t] =
                    [ email           |-> email'[t],
                      is_disposable   |-> FALSE,
                      is_valid_format |-> TRUE,
                      domain          |-> DomainOf[email'[t]],
                      risk_score      |-> 0,
                      risk_level      |-> RiskLevel.LOW,
                      checks          |-> [InitialChecks EXCEPT !.domain_whitelist = TRUE],
                      timestamp       |-> now ]
               /\ cache' = _cache_result(cache, email'[t], result'[t], now)]_vars

\* a whitelisted verdict has been returned for an address with pattern
\* flags whose domain is in the disposable set as well
C2_Witness ==
    \E t \in Callers :
        /\ pc[t] = "done"
        /\ result[t].checks.domain_whitelist
        /\ result[t].domain \in disposable_domains
        /\ PatternsOf[email[t]].has_temp_keywords
        /\ email[t] \in CacheKeys(cache)

\* C3: for a well-formed address whose domain is in the disposable set and
\* not in the whitelist, the verdict is disposable, has the blacklist flag
\* and a final score of 95, or of 100 when the domain does not resolve; the
\* pattern flags are recorded and do not change the score.
C3_BlacklistedScore ==
    [][\A t \in Callers :
          /\ (/\ Computes(t)
              /\ ValidFormatOf[email'[t]]
              /\ DomainOf[email'[t]] \in disposable_domains'
              /\ DomainOf[email'[t]] \notin whitelist_domains)
               => /\ pc'[t] = "mx"
                  /\ result'[t].is_disposable
                  /\ result'[t].checks.domain_blacklist
                  /\ result'[t].risk_score = 95
                  /\ result'[t].checks.suspicious_patterns = PatternsOf[email'[t]]
          /\ (Probed(t) /\ result[t].checks.domain_blacklist)
               => /\ result'[t].is_disposable
                  /\ result'[t].checks.domain_blacklist
                  /\ result'[t].risk_score >= 95
                  /\ result'[t].risk_score =
                       (IF result'[t].checks.mx_record_exists = MxFalse THEN 100 ELSE 95)
                  /\ result'[t].checks.suspicious_patterns = PatternsOf[email[t]]]_vars

\* a blacklisted address with a pattern flag has got its final verdict,
\* once with the domain unreachable
C3_Witness ==
    \E t \in Callers :
        /\ pc[t] = "done"
        /\ result[t].checks.domain_blacklist
        /\ result[t].checks.suspicious_patterns.has_temp_keywords
        /\ result[t].checks.mx_record_exists = MxFalse
        /\ result[t].risk_score = 100

\* C4: for an address that fails the format check, the empty string and
\* strings of more than 254 characters among them, check_email returns a
\* verdict with is_valid_format false, score 100, level CRITICAL, not
\* disposable and no domain; the whitelist, the blacklist, the pattern
\* analyzer and the reachability probe leave no trace in it, and the probe
\* is never awaited.
C4_InvalidFormat ==
    \A t \in Callers :
        /\ (pc[t] = "done" /\ (email[t] = <<>> \/ Len(email[t]) > 254))
             => ~result[t].is_valid_format
        /\ (pc[t] = "done" /\ ~ValidFormatOf[email[t]])
             => to_dict(result[t]) =
                  [ email           |-> email[t],
                    is_disposable   |-> FALSE,
                    is_valid_format |-> FALSE,
                    domain          |-> None,
                    risk_score      |-> 100,
                    risk_level      |-> "critical",
                    checks          |-> InitialChecks,
                    timestamp       |-> result[t].timestamp ]
        /\ pc[t] = "mx" => ValidFormatOf[email[t]]

\* the verdict of an address that is too long has been returned while its
\* domain is in the whitelist
C4_Witness ==
    \E t \in Callers :
        /\ pc[t] = "done"
        /\ email[t] = E_too_long
        /\ DomainOf[email[t]] \in whitelist_domains

\* C5: for an input without exactly one "@", domain extraction yields null
\* and the risk score check_email returns is 100.
C5_NotOneAt ==
    \A t \in Callers :
        (pc[t] = "done" /\ count(email[t], "@") # 1)
          => /\ DomainOf[email[t]] = None
             /\ result[t].domain = None
             /\ result[t].risk_score = 100

\* the verdict of an address with two "@" has been returned
C5_Witness ==
    \E t \in Callers : pc[t] = "done" /\ count(email[t], "@") = 2

\* C6: every verdict a call holds or has returned, and every verdict in
\* the cache, has a risk score from 0 to 100.
C6_ScoreInRange ==
    /\ \A t \in Callers : result[t].risk_score \in 0..100
    /\ \A i \in 1..Len(cache) : cache[i].result.risk_score \in 0..100

\* a pattern-only verdict whose score the unreachable domain took to the
\* cap of 100 has been returned and cached
C6_Witness ==
    \E t \in Callers :
        /\ pc[t] = "done"
        /\ ~result[t].checks.domain_blacklist
        /\ result[t].checks.mx_record_exists = MxFalse
        /\ result[t].risk_score = 100
        /\ \E i \in 1..Len(cache) : cache[i].result.risk_score = 100

\* C7: when a caller holds the verdict V of check_email(e) and the cache
\* entry of e, written by that call, is still valid, another call of
\* check_email(e) returns a verdict equal to V in every field.
C7_HitReturnsSameVerdict ==
    [][\A t1, t2 \in Callers :
          (/\ t1 # t2
           /\ pc[t1] = "done"
           /\ AnsweredAtOnce(t2)
           /\ email'[t2] = email[t1]
           /\ _is_cache_valid(cache, email[t1], now)
           /\ CacheGet(cache, email[t1]).result = to_dict(result[t1]))
            => result'[t2] = result[t1]]_vars

\* the level of the bucket a score falls in, as the value of the enum member
BucketOf(score) ==
    IF score >= 90 THEN "critical"
    ELSE IF score >= 70 THEN "high"
    ELSE IF score >= 40 THEN "medium"
    ELSE "low"

\* C8: in every verdict check_email returns or caches, the risk level is
\* the bucket of the final score: CRITICAL from 90, HIGH from 70 to 89,
\* MEDIUM from 40 to 69, LOW below 40.
C8_LevelIsBucket ==
    /\ \A t \in Callers :
          pc[t] = "done" =>
            /\ IsRiskLevel(result[t].risk_level)
            /\ RiskLevelValue(result[t].risk_level) = BucketOf(result[t].risk_score)
    /\ \A i \in 1..Len(cache) :
          cache[i].result.risk_level = BucketOf(cache[i].result.risk_score)

\* a verdict with the score 90, where CRITICAL begins, has been returned
C8_Witness ==
    \E t \in Callers :
        /\ pc[t] = "done"
        /\ result[t].risk_score = 90
        /\ result[t].risk_level = RiskLevel.CRITICAL

\* C9: in the verdict of a well-formed address whose domain is not in the
\* whitelist, is_disposable is true exactly when the final score is at
\* least 70.
C9_DisposableIffSeventy ==
    \A t \in Callers :
        (/\ pc[t] = "done"
         /\ ValidFormatOf[email[t]]
         /\ DomainOf[email[t]] \notin whitelist_domains)
          => (result[t].is_disposable <=> result[t].risk_score >= 70)

\* an address that is not blacklisted has been made disposable by its
\* patterns and its unreachable domain, with a score of exactly 70
C9_Witness ==
    \E t \in Callers :
        /\ pc[t] = "done"
        /\ ~result[t].checks.domain_blacklist
        /\ result[t].checks.mx_record_exists = MxFalse
        /\ result[t].is_disposable
        /\ result[t].risk_score = 70

\* C10: when the probe's result is false the score becomes
\* min(score + 35, 100); when it is true or unknown the score stays as it
\* was before the probe.
C10_ReachabilityFold ==
    [][\A t \in Callers :
          Probed(t) =>
            /\ result'[t].checks.mx_record_exists \in {MxTrue, MxFalse, MxNone}
            /\ result'[t].checks.mx_record_exists = MxFalse
                 => result'[t].risk_score = Min(result[t].risk_score + 35, 100)
            /\ result'[t].checks.mx_record_exists # MxFalse
                 => result'[t].risk_score = result[t].risk_score]_vars

\* a verdict with unknown reachability has been returned with the pattern
\* score of 55 it had before the probe
C10_Witness ==
    \E t \in Callers :
        /\ pc[t] = "done"
        /\ result[t].checks.mx_record_exists = MxNone
        /\ ~result[t].checks.domain_blacklist
        /\ result[t].risk_score = 55

\* C11: the probe answers true when resolution succeeds, false only when
\* resolution fails because the name does not exist, and unknown for every
\* other failure; a temporary resolver failure or a timeout never gives
\* false and never raises the score.
C11_FalseOnlyWhenNotFound ==
    [][\A t \in Callers :
          Probed(t) =>
            LET mx == result'[t].checks.mx_record_exists
            IN  /\ mx = MxTrue <=> dns'[t] = "resolved"
                /\ mx = MxFalse <=> dns'[t] = "EAI_NONAME"
                /\ dns'[t] \notin {"resolved", "EAI_NONAME"}
                     => /\ mx = MxNone
                        /\ result'[t].risk_score = result[t].risk_score]_vars

\* t's call puts its verdict into the cache in this step
Puts(t) == (Computes(t) /\ pc'[t] = "done") \/ Probed(t)

\* the items of a cache
Items(c) == {c[i] : i \in 1..Len(c)}

\* C12: after every put the cache holds at most max_cache_size entries:
\* when the put takes the count over the limit, every entry stored at or
\* before now - cache_ttl is dropped, and if the count is still over the
\* limit only max_cache_size entries stay, none of them older than an
\* entry that was dropped.
C12_SweepKeepsNewest ==
    [][\A t \in Callers :
          Puts(t) =>
            LET put    == [key |-> email'[t], result |-> to_dict(result'[t]),
                           timestamp |-> now]
                before == {x \in Items(cache) : x.key # put.key} \cup {put}
                fresh  == {x \in before : x.timestamp > now - cache_ttl}
                after  == Items(cache')
            IN  /\ Len(cache') <= max_cache_size
                /\ Cardinality(after) = Len(cache')
                /\ IF Cardinality(before) <= max_cache_size THEN after = before
                   ELSE IF Cardinality(fresh) <= max_cache_size THEN after = fresh
                   ELSE /\ after \subseteq fresh
                        /\ Cardinality(after) = max_cache_size
                        /\ \A k \in after, d \in fresh \ after :
                              k.timestamp >= d.timestamp]_vars

\* a verdict computed one tick after the last refresh is the only entry of
\* the cache: the entry of the call that refreshed, not yet expired, has
\* been swept
C12_Witness ==
    \E t \in Callers :
        /\ pc[t] = "done"
        /\ result[t].timestamp = now
        /\ last_update = now - 1
        /\ Len(cache) = max_cache_size
        /\ cache[1].key = email[t]
        /\ cache[1].timestamp = now

\* the lowercase-trimmed form of an address
Normalized(e) == strip(lower(e))

\* C13: cache entries are keyed by the lowercase-trimmed email string: a
\* call whose argument differs only in letter case or surrounding
\* whitespace from the key of an entry that has not expired is a cache hit
\* on that entry's verdict.
C13_KeyedByNormalizedEmail ==
    [][\A t \in Callers :
          (/\ pc[t] = "idle"
           /\ pc'[t] # "idle"
           /\ \E x \in Items(cache) :
                 /\ Normalized(x.key) = Normalized(email'[t])
                 /\ now - x.timestamp < cache_ttl)
            => /\ pc'[t] = "done"
               /\ cache' = cache
               /\ \E x \in Items(cache) :
                     /\ Normalized(x.key) = Normalized(email'[t])
                     /\ to_dict(result'[t]) = x.result]_vars

\* the callers of the refresh operations
RefreshCallers == DOMAIN rpc

\* r calls update_domains_if_needed in this step (force_update_domains
\* resets last_update; where last_update is 0 already both calls await a
\* refresh)
CallsUpdate(r) ==
    rpc[r] = "idle" /\ rpc'[r] # "idle" /\ last_update' = last_update

\* r's refresh cycle ends in this step
EndsRefresh(r) == rpc[r] = "fetch" /\ rpc'[r] = "done"

\* C14: update_domains_if_needed runs a refresh cycle exactly when
\* now - last_update > update_interval, and its result tells whether an
\* update was performed: true when the refresh ran and completed, false when
\* no refresh was due.
C14_UpdatedIffRefreshed ==
    [][\A r \in RefreshCallers :
          /\ CallsUpdate(r) =>
               LET due == now - last_update > update_interval
               IN  /\ rpc'[r] = "fetch" <=> due
                   /\ ~due => (rpc'[r] = "done" /\ updated'[r] = FALSE)
          /\ (EndsRefresh(r) /\ last_update' = now /\ last_update # now)
               => updated'[r] = TRUE]_vars

\* C15: a refresh cycle that gets to its merge reports success whatever
\* its sources delivered, nothing included: the disposable set afterwards
\* is the set before it together with what the sources delivered, and
\* last_update is set.  A cycle that reports failure has merged nothing.
C15_RefreshSucceedsOnceMerged ==
    [][\A r \in RefreshCallers :
          EndsRefresh(r) =>
            IF updated'[r]
              THEN /\ disposable_domains \subseteq disposable_domains'
                   /\ (offered' \ offered) \subseteq disposable_domains'
                   /\ disposable_domains' \subseteq
                        disposable_domains \cup (offered' \ offered)
                   /\ last_update' = now
              ELSE UNCHANGED <<disposable_domains, last_update, offered>>]_vars

\* a refresh has reported success although no source delivered a domain:
\* the disposable set is still the one loaded from the file
C15_Witness ==
    \E r \in RefreshCallers :
        /\ rpc[r] = "done"
        /\ updated[r]
        /\ last_update = now
        /\ disposable_domains = {D_mailinator}

\* C16: check_email never waits for a remote fetch of the domain lists:
\* no check is ever suspended in _fetch_external_lists
C16_CheckNeverAwaitsFetch ==
    \A t \in Callers : pc[t] # "fetch"

\* a step of check_email that returns the verdict of a malformed address
\* without taking it from the cache
ReturnsMalformed(t) ==
    /\ pc[t] \in {"idle", "fetch"}
    /\ pc'[t] = "done"
    /\ ~ValidFormatOf[email'[t]]
    /\ ~_is_cache_valid(cache, email'[t], now)

\* C17: the check of a malformed address leaves the disposable set, the
\* whitelist set, last_update and the cache as they were
C17_MalformedTouchesNothing ==
    [][\A t \in Callers :
          ReturnsMalformed(t) =>
             UNCHANGED <<disposable_domains, whitelist_domains,
                         last_update, cache>>]_vars

\* C18: no domain is in the disposable set and in the whitelist set
C18_SetsDisjoint ==
    disposable_domains \cap whitelist_domains = {}

\* C19: however refresh cycles, checks and add_to_blacklist calls
\* interleave, the disposable set is the set loaded at the start together
\* with every domain added by add_to_blacklist and every domain a source
\* delivered, and no step removes a domain from it.
C19_RefreshesLoseNothing ==
    /\ [](disposable_domains = offered)
    /\ [][disposable_domains \subseteq disposable_domains']_vars

\* one refresh has merged while another one was still fetching, and the
\* set holds a fetched domain and one added by add_to_blacklist
C19_Witness ==
    \E r, q \in RefreshCallers :
        /\ rpc[r] = "fetch"
        /\ rpc[q] = "done"
        /\ updated[q]
        /\ last_update = now
        /\ {D_temp_x_tk, D_temp_tk} \subseteq disposable_domains

\* two verdicts that differ in the timestamp at most
AgreeButTimestamp(r1, r2) ==
    [r1 EXCEPT !.timestamp = 0] = [r2 EXCEPT !.timestamp = 0]

\* C20: when two calls of check_email for the same address have both
\* missed the cache and both computed, the verdict of the later one agrees
\* with the verdict of the earlier one in every field except the timestamp,
\* and the cache entry after the later put is the later verdict.
C20_RacingChecksAgree ==
    [][\A t, u \in Callers :
          (/\ t # u
           /\ Probed(t)
           /\ pc[u] = "done"
           /\ dns[u] # "none"
           /\ email[u] = email[t])
            => /\ AgreeButTimestamp(result'[t], result[u])
               /\ email[t] \in CacheKeys(cache')
               /\ CacheGet(cache', email[t]).result = to_dict(result'[t])]_vars

\* a refresh cycle completes in this step: a refresh operation's, or the
\* one a check awaited
CompletesRefresh ==
    \/ \E r \in RefreshCallers : EndsRefresh(r) /\ updated'[r]
    \/ \E t \in Callers : pc[t] = "fetch" /\ pc'[t] # "fetch" /\ last_update' = now

\* C25: last_update changes only in a step that completes a refresh
\* cycle, and it never decreases.
C25_OnlyCompletedRefreshWrites ==
    [][last_update' # last_update =>
          (CompletesRefresh /\ last_update' >= last_update)]_vars

\* C29: every member of the disposable set and of the whitelist set is
\* lowercase and trimmed, the form in which _extract_domain yields a domain.
C29_StoredDomainsNormalized ==
    \A d \in disposable_domains \cup whitelist_domains : d = strip(lower(d))

\* C30: a save that fails undoes nothing: every domain a completing
\* refresh was given by its sources or add_to_blacklist was given by its
\* caller is in the disposable set after the step, no step takes a domain
\* out of either set, and a refresh that merged reports success with
\* last_update set to the current time.
C30_FailedSaveKeepsChange ==
    [][/\ (offered' \ offered) \subseteq disposable_domains'
       /\ disposable_domains \subseteq disposable_domains'
       /\ whitelist_domains \subseteq whitelist_domains'
       /\ \A r \in RefreshCallers :
             (EndsRefresh(r) /\ offered' # offered)
                => (updated'[r] /\ last_update' = now)]_vars

\* a refresh has reported success and merged a fetched domain, and the
\* file does not hold the set: the save failed
C30_Witness ==
    \E r \in RefreshCallers :
        /\ rpc[r] = "done"
        /\ updated[r]
        /\ last_update = now
        /\ D_temp_tk \in disposable_domains
        /\ disposable_file = <<D_mailinator>>

\* C26: a refresh cycle sets last_update to its completion time together
\* with the merge of all it was given, whether or not a domain was added,
\* so that update_domains_if_needed starts no refresh while less than
\* update_interval has passed since a cycle completed.
C26_NoRefreshSoonAfterCycle ==
    [][\A r \in RefreshCallers :
          /\ (EndsRefresh(r) /\ updated'[r])
               => (last_update' = now /\ offered' \subseteq disposable_domains')
          /\ (CallsUpdate(r) /\ now - completed <= update_interval)
               => rpc'[r] # "fetch"]_vars

\* C23: every call of check_email that has started gets to its verdict,
\* given that the refresh a check awaits ends, as the timeout of every
\* fetch attempt and the bound on the attempts make it do.
C23_EveryCheckReturns ==
    \A t \in Tasks :
        []<>(pc[t] # "fetch") => ((pc[t] # "idle") ~> (pc[t] = "done"))

\* the process loads its lists in this step
Loads == phase = "down" /\ phase' = "up"

\* a JSON array in ascending order
IsSortedArray(file) ==
    /\ file \notin {Absent, Corrupt, Unreachable}
    /\ \A i \in 1..(Len(file) - 1) : StrLess(file[i], file[i + 1])

\* C24: load_domains never raises; it creates an empty array where there
\* is no file and returns the empty set when the file cannot be read or
\* parsed, the strings of the array otherwise; and a file that
\* write_domains has written is a sorted array from which load_domains
\* returns exactly the set that was written.
C24_PersistenceRoundTrips ==
    [][/\ Loads =>
            /\ \A c \in WriteOutcomes :
                  ~load_domains_call(disposable_file, c).raised
            /\ disposable_file = Absent => disposable_file' \in {<<>>, Absent}
            /\ disposable_file \in {Absent, Corrupt} => disposable_domains' = {}
            /\ disposable_file \notin {Absent, Corrupt}
                 => /\ disposable_file' = disposable_file
                    /\ disposable_domains' =
                         {disposable_file[i] : i \in 1..Len(disposable_file)}
       /\ (~Loads /\ disposable_file' # disposable_file /\ disposable_file' # Corrupt)
            => /\ IsSortedArray(disposable_file')
               /\ load_domains_call(disposable_file', "written") =
                    [raised |-> FALSE, value |-> disposable_domains',
                     file |-> disposable_file']]_vars

\* the sources whose _fetch_from_url is modelled
Sources == DOMAIN upc

\* the attempt of source u ends in this step
Answered(u) == upc[u] = "get" /\ upc'[u] # "get"

C28_FetchedLinesAreDomains ==
    \A u \in Sources :
        \A d \in ures[u] :
            /\ d = strip(lower(d))
            /\ d # <<>>
            /\ d[1] # "#"
            /\ "." \in {d[k] : k \in 1..Len(d)}


-----------------------------------------------------------------------------
(* The bulk endpoints                                                      *)

\* options.get("max_batch_size", 100): the cap when the request names none
default_max_batch_size == 100

\* asyncio.Semaphore(10)
semaphore_limit == 10

\* RATE_LIMIT_REQUESTS = 100 and RATE_LIMIT_WINDOW = 3600, scaled to the
\* clock that ticks in whole units
RATE_LIMIT_REQUESTS == 2

RATE_LIMIT_WINDOW == 2

\* the most requests the clients send
MaxRequests == 4

\* the longest list of emails in a request body, the list above the cap
\* aside
MaxBatch == 2

\* a JSON value that is not a string
JsonNull == <<"null">>

IsStr(item) == item # JsonNull

\* rate_limit_storage.get(client_ip, []); the dict is a set of
\* (ip, stamps) items
StampsOf(storage, ip) ==
    IF \E r \in storage : r.ip = ip
      THEN (CHOOSE r \in storage : r.ip = ip).stamps
      ELSE <<>>

\* a variant of the limiter that still counts a stamp of age RATE_LIMIT_WINDOW
check_rate_limit_inclusive(storage, ip, current_time) ==
    LET kept == SelectSeq(StampsOf(storage, ip),
                          LAMBDA ts : current_time - ts <= RATE_LIMIT_WINDOW)
        others == {r \in storage : r.ip # ip}
    IN IF Len(kept) >= RATE_LIMIT_REQUESTS
         THEN [ok |-> FALSE,
               storage |-> others \cup {[ip |-> ip, stamps |-> kept]}]
         ELSE [ok |-> TRUE,
               storage |-> others \cup {[ip |-> ip, stamps |-> Append(kept, current_time)]}]

\* check_rate_limit(client_ip) at current_time: the stamps inside the window
\* are kept; at the limit the call is refused, below it the call is stamped
check_rate_limit(storage, ip, current_time) ==
    LET kept == SelectSeq(StampsOf(storage, ip),
                          LAMBDA ts : current_time - ts < RATE_LIMIT_WINDOW)
        others == {r \in storage : r.ip # ip}
    IN IF Len(kept) >= RATE_LIMIT_REQUESTS
         THEN [ok |-> FALSE,
               storage |-> others \cup {[ip |-> ip, stamps |-> kept]}]
         ELSE [ok |-> TRUE,
               storage |-> others \cup {[ip |-> ip, stamps |-> Append(kept, current_time)]}]

\* options.get(key, default); the dict is a set of (key, value) items
OptionGet(options, key, default) ==
    IF \E o \in options : o.key = key
      THEN (CHOOSE o \in options : o.key = key).value
      ELSE default

\* a JSON response that carries an error and no results
ErrorResponse(status_code) ==
    [status |-> status_code, results |-> <<>>, total_checked |-> 0]

\* the slot of an item whose process_email has not returned
NoEntry == [email |-> <<>>, pending |-> TRUE]

\* the dict process_email returns from its except clauses
ErrorEntry(item, kind) ==
    [email |-> item, error |-> kind, is_disposable |-> None,
     risk_score |-> None, risk_level |-> None, checks |-> EmptyDict]

\* a variant of gather that hands the results back in completion order
StoreEntry_completion_order(es, i, entry) ==
    LET free == CHOOSE j \in DOMAIN es :
                  /\ es[j] = NoEntry
                  /\ \A k \in DOMAIN es : es[k] = NoEntry => j <= k
    IN [es EXCEPT ![free] = entry]

\* asyncio.gather: the value of the i-th awaitable is the i-th result
StoreEntry(es, i, entry) == [es EXCEPT ![i] = entry]

\* the v2 endpoint takes a request: the rate limit, the shape of the list
\* and the batch size are tested, and process_email is scheduled for every
\* item of an accepted list
BulkRequest(ip, emails, options) ==
    /\ phase = "up"
    /\ response = NoResponse
    /\ bpc = <<>>
    /\ Len(served) < MaxRequests
    /\ LET rl == check_rate_limit(rate_limit_storage, ip, now)
           max_batch_size == OptionGet(options, "max_batch_size", default_max_batch_size)
       IN /\ rate_limit_storage' = rl.storage
          /\ served' = Append(served, [ip |-> ip, at |-> now, ok |-> rl.ok])
          /\ batch' = [emails |-> emails, options |-> options]
          /\ IF ~rl.ok
               THEN /\ response' = ErrorResponse(429)
                    /\ UNCHANGED <<bpc, entries>>
               ELSE IF emails = <<>>
                 THEN /\ response' = ErrorResponse(400)
                      /\ UNCHANGED <<bpc, entries>>
                 ELSE IF Len(emails) > max_batch_size
                   THEN /\ response' = ErrorResponse(400)
                        /\ UNCHANGED <<bpc, entries>>
                   ELSE /\ bpc' = [i \in 1..Len(emails) |-> "queued"]
                        /\ entries' = [i \in 1..Len(emails) |-> NoEntry]
                        /\ UNCHANGED response
    /\ UNCHANGED <<checker_vars, phase, url_vars>>

\* a variant of the semaphore that never blocks
locked_never(b) == FALSE

\* Semaphore.locked() for the tasks b: the 10 permits are with the tasks
\* that are inside 'async with semaphore'
locked(b) == Cardinality({j \in DOMAIN b : b[j] = "checking"}) >= semaphore_limit

\* process_email(emails[i]) runs up to its first await: it takes the
\* semaphore, turns an item that is no string, is empty or is refused by
\* EmailRequest into a validation error entry, and calls check_email with
\* the validated address otherwise. The tasks start in list order.
\* validate_email comes from the email_validator package: it refuses an
\* address without exactly one "@", and is free to refuse any other; the
\* address it returns for an accepted lowercase address is the address.
ProcessEmailStart(i) ==
    /\ i \in DOMAIN bpc
    /\ bpc[i] = "queued"
    /\ \A j \in 1..(i - 1) : bpc[j] # "queued"
    /\ ~locked(bpc)
    /\ LET item == batch.emails[i]
       IN IF ~IsStr(item) \/ item = <<>>
            THEN /\ entries' = StoreEntry(entries, i, ErrorEntry(item, "Validation error"))
                 /\ bpc' = [bpc EXCEPT ![i] = "done"]
                 /\ UNCHANGED <<checker_vars, phase, url_vars>>
            ELSE \/ /\ entries' = StoreEntry(entries, i, ErrorEntry(item, "Validation error"))
                    /\ bpc' = [bpc EXCEPT ![i] = "done"]
                    /\ UNCHANGED <<checker_vars, phase, url_vars>>
                 \/ /\ count(strip(item), "@") = 1
                    /\ check_email(i, strip(item))
                    /\ bpc' = [bpc EXCEPT ![i] = "checking"]
                    /\ UNCHANGED entries
    /\ UNCHANGED <<rate_limit_storage, served, batch, response>>

\* check_email has returned to process_email(emails[i]): the verdict's dict
\* is the item's result and the semaphore is released
ProcessEmailReturn(i) ==
    /\ i \in DOMAIN bpc
    /\ bpc[i] = "checking"
    /\ pc[i] = "done"
    /\ entries' = StoreEntry(entries, i, to_dict(result[i]))
    /\ bpc' = [bpc EXCEPT ![i] = "done"]
    /\ pc' = [pc EXCEPT ![i] = "idle"]
    /\ email' = [email EXCEPT ![i] = <<>>]
    /\ result' = [result EXCEPT ![i] = NoResult]
    /\ dns' = [dns EXCEPT ![i] = "none"]
    /\ UNCHANGED <<disposable_domains, whitelist_domains, disposable_file,
                   whitelist_file, cache, last_update, now, rpc, updated, offered,
                   completed, phase, url_vars, rate_limit_storage, served, batch, response>>

\* gather has every result: the endpoint builds its 200 response
BulkRespond ==
    /\ bpc # <<>>
    /\ response = NoResponse
    /\ \A i \in DOMAIN bpc : bpc[i] = "done"
    /\ response' = [status |-> 200, results |-> entries,
                    total_checked |-> Len(batch.emails)]
    /\ UNCHANGED <<checker_vars, phase, url_vars, rate_limit_storage, served, batch, bpc, entries>>

\* the response has been sent
BulkReturn ==
    /\ response # NoResponse
    /\ batch' = NoBody
    /\ bpc' = <<>>
    /\ entries' = <<>>
    /\ response' = NoResponse
    /\ UNCHANGED <<checker_vars, phase, url_vars, rate_limit_storage, served>>

\* what the first application's check_email(email) hands to gather: its
\* dict for the address, or an exception; that application's checker is an
\* object of its own, whose verdict is left open here
V1Outcomes == {"disposable", "clean", "raised"}

V1Result(item, outcome) ==
    IF outcome = "raised"
      THEN [email |-> item, error |-> "Exception", is_disposable |-> None]
      ELSE [email |-> lower(strip(item)), is_disposable |-> (outcome = "disposable")]

\* the first application's bulk endpoint serves a request: the list's shape
\* and length are tested, email.strip().lower() is evaluated for every item
\* before any check is awaited, and an exception of that loop is answered by
\* the handler's last except clause
BulkCheckV1(emails) ==
    /\ phase = "up"
    /\ response = NoResponse
    /\ bpc = <<>>
    /\ batch' = [emails |-> emails, options |-> {}]
    /\ IF emails = <<>>
         THEN response' = ErrorResponse(400)
         ELSE IF Len(emails) > default_max_batch_size
           THEN response' = ErrorResponse(400)
           ELSE IF \E i \in DOMAIN emails : ~IsStr(emails[i])
             THEN response' = ErrorResponse(500)
             ELSE \E outs \in [DOMAIN emails -> V1Outcomes] :
                    response' = [status |-> 200,
                                 results |-> [i \in DOMAIN emails |-> V1Result(emails[i], outs[i])],
                                 total_checked |-> Len(emails)]
    /\ UNCHANGED <<checker_vars, phase, url_vars, rate_limit_storage, served, bpc, entries>>

\* the items of the request bodies
BatchItems == {JsonNull, E_no_at, E_plain}

\* a list one longer than the default cap
Oversized == [i \in 1..(default_max_batch_size + 1) |-> JsonNull]

BatchLists == UNION {[1..k -> BatchItems] : k \in 0..MaxBatch} \cup {Oversized}

BatchOptions ==
    { {}, {[key |-> "max_batch_size", value |-> default_max_batch_size + 1]} }

Clients == {"10.0.0.1"}

BatchTasks == 1..MaxBatch

BatchInit == InitChecker(<<D_mailinator>>, <<>>, BatchTasks)

BatchNext ==
    \/ \E ip \in Clients, emails \in BatchLists, options \in BatchOptions :
         BulkRequest(ip, emails, options)
    \/ \E i \in BatchTasks \cup DOMAIN bpc : ProcessEmailStart(i)
    \/ \E i \in BatchTasks : ProcessEmailReturn(i)
    \/ \E t \in BatchTasks, w \in WriteOutcomes : FetchDone(t, w)
    \/ \E t \in BatchTasks : FetchFailed(t)
    \/ \E t \in BatchTasks : MxDone(t)
    \/ BulkRespond
    \/ BulkReturn
    \/ \E emails \in BatchLists : BulkCheckV1(emails)

BatchSpec == BatchInit /\ [][BatchNext]_vars


\* Every operation of one checker instance: checks, the refresh operations,
\* the administrative additions, clear_cache and, at the end, cleanup.
OpsEmails == {E_fake}

OpsInit == InitService(<<D_mailinator>>, <<>>, {1}, {1})

OpsNext ==
    \/ \E e \in OpsEmails : CheckEmailCall(1, e)
    \/ \E w \in Saved : FetchDone(1, w)
    \/ FetchFailed(1)
    \/ MxDone(1)
    \/ Return(1)
    \/ UpdateCall(1)
    \/ ForceCall(1)
    \/ \E results \in RefreshResults, w \in Saved : RefreshDone(1, results, w)
    \/ RefreshFailed(1)
    \/ RefreshReturn(1)
    \/ \E domains \in SysWhitelistArgs, w \in Saved : add_to_whitelist(domains, w)
    \/ \E domains \in SysBlacklistArgs, w \in Saved : add_to_blacklist(domains, w)
    \/ clear_cache
    \/ \E wd, ww \in Saved : Shutdown(wd, ww)
    \/ Tick

OpsSpec == OpsInit /\ [][OpsNext]_vars

\* Two clients sending requests to the rate-limited bulk endpoint while the
\* clock runs past the window; the bodies are empty lists, which the
\* endpoint refuses once the limiter has let the request in.
RateClients == {"10.0.0.1", "10.0.0.2"}

RateNext ==
    \/ \E ip \in RateClients : BulkRequest(ip, <<>>, {})
    \/ BulkReturn
    \/ CacheTick

RateSpec == Init /\ [][RateNext]_vars

\* The second application's bulk endpoint where a resolver may never answer:
\* a probe ends when getaddrinfo returns, and a check that has returned is
\* resumed in process_email.
BatchLiveNext ==
    \/ \E ip \in Clients, emails \in BatchLists : BulkRequest(ip, emails, {})
    \/ \E i \in BatchTasks \cup DOMAIN bpc : ProcessEmailStart(i)
    \/ \E i \in BatchTasks : ProcessEmailReturn(i)
    \/ \E t \in BatchTasks, w \in Saved : FetchDone(t, w)
    \/ \E t \in BatchTasks : FetchFailed(t)
    \/ \E t \in BatchTasks : MxAnswer(t)
    \/ \E t \in BatchTasks : MxHang(t)
    \/ BulkRespond
    \/ BulkReturn

BatchLiveSpec ==
    /\ BatchInit
    /\ [][BatchLiveNext]_vars
    /\ \A t \in BatchTasks : WF_vars(MxAnswer(t))
    /\ \A i \in BatchTasks : WF_vars(ProcessEmailReturn(i))

\* the entry is about the item: an error entry names the item as it came,
\* a verdict is one for the item's trimmed address
EntryFor(entry, item) ==
    IF "error" \in DOMAIN entry
      THEN entry.email = item
      ELSE IsStr(item) /\ lower(entry.email) = lower(strip(item))

\* C21: a batch that passed the endpoint's guards is answered with exactly
\* one result per input email, in input order, each a verdict or an error
\* entry for that email; an error in one item never aborts the batch.
C21_BatchIsolatesItemErrors ==
    (response # NoResponse /\ response.status \notin {400, 429})
      => /\ response.status = 200
         /\ Len(response.results) = Len(batch.emails)
         /\ \A i \in DOMAIN batch.emails :
              EntryFor(response.results[i], batch.emails[i])

\* C22: no request body gets a list of more than 100 emails past the
\* endpoint: such a batch is rejected, and none of its emails is processed.
C22_CapCannotBeRaised ==
    Len(batch.emails) > default_max_batch_size
      => /\ response.status \in {400, 429}
         /\ bpc = <<>>
         /\ entries = <<>>


\* C31: a call of check_email for an address that has a cache entry is
\* answered from the entry exactly while now - storedAt < cache_ttl; at age
\* cache_ttl and beyond the call recomputes (it awaits the refresh or the
\* probe, or returns a verdict made now), although the entry is still in
\* the cache map.
C31_HitExactlyWhileFresh ==
    [][\A t \in Callers :
          (pc[t] = "idle" /\ pc'[t] # "idle" /\ email'[t] \in CacheKeys(cache))
            => LET entry == CacheGet(cache, email'[t])
               IN IF now - entry.timestamp < cache_ttl
                    THEN /\ pc'[t] = "done"
                         /\ result'[t] = EmailCheckResult(entry.result)
                         /\ cache' = cache
                    ELSE \/ pc'[t] \in {"fetch", "mx"}
                         \/ /\ pc'[t] = "done"
                            /\ result'[t].timestamp = now
                            /\ result'[t].timestamp # entry.timestamp]_vars

\* a call is recomputing while its entry, of age cache_ttl, is in the cache
C31_Witness ==
    \E t \in Callers :
        /\ pc[t] \in {"fetch", "mx"}
        /\ email[t] \in CacheKeys(cache)
        /\ now - CacheGet(cache, email[t]).timestamp = cache_ttl


\* the weight of a flag that is true, nothing for one that is false
Weighted(flag, weight) == IF flag THEN weight ELSE 0

\* the sum of the weights the specification names, over the true flags
WeightSum(f) ==
    Weighted(f.has_numbers_only_username, 20)
      + Weighted(f.has_random_username, 15)
      + Weighted(f.has_temp_keywords, 30)
      + Weighted(f.has_suspicious_tld, 25)
      + Weighted(f.has_multiple_dots, 10)
      + Weighted(f.has_plus_addressing, 5)
      + Weighted(f.has_consecutive_dots, 20)
      + Weighted(f.has_short_domain, 10)
      + Weighted(f.has_long_username, 8)
      + Weighted(f.has_special_chars_excess, 7)

\* C32: for a well-formed address whose domain is neither whitelisted nor
\* blacklisted, the score check_email holds when it turns to the
\* reachability probe is min(S, 90), S being the sum of the fixed weights
\* over the pattern flags that are true.
C32_PatternScoreIsCappedWeightSum ==
    [][\A t \in Callers :
          (/\ Computes(t)
           /\ ValidFormatOf[email'[t]]
           /\ DomainOf[email'[t]] \notin disposable_domains'
           /\ DomainOf[email'[t]] \notin whitelist_domains)
            => /\ pc'[t] = "mx"
               /\ result'[t].checks.suspicious_patterns = PatternsOf[email'[t]]
               /\ LET S == WeightSum(result'[t].checks.suspicious_patterns)
                  IN result'[t].risk_score = (IF S < 90 THEN S ELSE 90)]_vars

\* an address in neither list awaits the probe with a weight sum above the
\* cap, and another with flags whose sum stays below it
C32_Witness ==
    \E t \in Callers :
        /\ pc[t] = "mx"
        /\ ~result[t].checks.domain_blacklist
        /\ WeightSum(result[t].checks.suspicious_patterns) > 90
        /\ result[t].risk_score = 90


-----------------------------------------------------------------------------
(* The scoring steps of check_email on two flag assignments                *)

\* the dict in which the flags of the set are true and the others false
FlagsOf(names) == [n \in PatternNames |-> n \in names]

FlagTasks == {1, 2}

\* the domain of the address is blacklisted, or it is not
FlagInit ==
    \E d \in {<<>>, <<D_gmail>>} : InitChecker(d, <<>>, FlagTasks)

\* lines 325-367 of check_email run twice for one address outside the
\* whitelist, once with the flags F and once with the flags G, where G has
\* every flag of F
ScorePair(F, G) ==
    /\ \A t \in FlagTasks : pc[t] = "idle"
    /\ LET r0 == InitialResult(E_plain, now)
           r1 == [r0 EXCEPT !.domain = DomainOf[E_plain]]
           r2 == BlacklistStep(r1, r1.domain, disposable_domains)
       IN result' = [t \in FlagTasks |-> PatternStepOn(r2, IF t = 1 THEN F ELSE G)]
    /\ pc' = [t \in FlagTasks |-> "mx"]
    /\ email' = [t \in FlagTasks |-> E_plain]
    /\ UNCHANGED <<disposable_domains, whitelist_domains, disposable_file,
                   whitelist_file, cache, last_update, now, dns, rpc, updated,
                   offered, completed, phase, url_vars, web_vars>>

\* lines 369-386 for both: the probe gives both the same answer
ProbePair(outcome) ==
    /\ \A t \in FlagTasks : pc[t] = "mx"
    /\ result' = [t \in FlagTasks |->
                    check_email_after_mx(result[t], _check_mx_record(outcome))]
    /\ dns' = [t \in FlagTasks |-> outcome]
    /\ pc' = [t \in FlagTasks |-> "done"]
    /\ UNCHANGED <<disposable_domains, whitelist_domains, disposable_file,
                   whitelist_file, cache, last_update, now, email, rpc, updated,
                   offered, completed, phase, url_vars, web_vars>>

FlagNext ==
    \/ /\ \A t \in FlagTasks : pc[t] = "idle"
       /\ \E names \in SUBSET PatternNames : \E fewer \in SUBSET names :
             ScorePair(FlagsOf(fewer), FlagsOf(names))
    \/ \E outcome \in DnsOutcomes : ProbePair(outcome)

FlagSpec == FlagInit /\ [][FlagNext]_vars

\* C33: of two flag assignments F and G where every flag true in F is true
\* in G, with the same blacklist membership and the same reachability
\* result, G has the pattern score and the risk score that are greater or
\* equal, before the probe and in the final verdict.
C33_ScoreIsMonotone ==
    (pc[1] \in {"mx", "done"} /\ pc[2] = pc[1])
      => LET F == result[1].checks.suspicious_patterns
             G == result[2].checks.suspicious_patterns
         IN (/\ \A n \in PatternNames : F[n] => G[n]
             /\ result[1].checks.domain_blacklist = result[2].checks.domain_blacklist
             /\ result[1].checks.mx_record_exists = result[2].checks.mx_record_exists)
              => /\ pattern_score(F) <= pattern_score(G)
                 /\ result[1].risk_score <= result[2].risk_score

\* two final verdicts for an unreachable domain outside the blacklist, the
\* second with more flags and a higher score
C33_Witness ==
    /\ pc[1] = "done"
    /\ pc[2] = "done"
    /\ result[1].checks.mx_record_exists = MxFalse
    /\ ~result[1].checks.domain_blacklist
    /\ \A n \in PatternNames :
          result[1].checks.suspicious_patterns[n] => result[2].checks.suspicious_patterns[n]
    /\ result[1].checks.suspicious_patterns # result[2].checks.suspicious_patterns
    /\ result[1].risk_score < result[2].risk_score


\* the process_email tasks that have entered check_email and not finished
InFlight == {i \in DOMAIN bpc : bpc[i] = "checking"}

\* process_email for item i is next to take the semaphore and can take it
CanStart(i) ==
    /\ i \in DOMAIN bpc
    /\ bpc[i] = "queued"
    /\ \A j \in 1..(i - 1) : bpc[j] # "queued"
    /\ ~locked(bpc)

\* item i of the batch has its result entry
Processed(i) == i \in DOMAIN entries /\ entries[i] # NoEntry

\* C34: during a batch check at most 10 sub-checks are in flight at any
\* time, and every email of the batch is eventually processed, given that
\* the event loop runs a task that can take the semaphore and that the
\* refresh a check awaits ends.
C34_TenInFlightAndAllProcessed ==
    /\ [](Cardinality(InFlight) <= semaphore_limit)
    /\ (\A j \in BatchTasks : []<>(~CanStart(j)) /\ []<>(pc[j] # "fetch"))
         => \A i \in BatchTasks :
               (i \in DOMAIN bpc /\ bpc[i] = "queued") ~> Processed(i)


\* C35: a call of check_email that finds a valid cache entry returns the
\* stored verdict in the same step, with no refresh awaited and no probe
\* made, and leaves the cache map with every storedAt, the disposable set,
\* the whitelist set and last_update as they were.
C35_HitChangesNothing ==
    [][\A t \in Callers :
          (/\ pc[t] = "idle"
           /\ pc'[t] # "idle"
           /\ email'[t] \in CacheKeys(cache)
           /\ now - CacheGet(cache, email'[t]).timestamp < cache_ttl)
            => /\ pc'[t] = "done"
               /\ dns'[t] = "none"
               /\ to_dict(result'[t]) = CacheGet(cache, email'[t]).result
               /\ cache' = cache
               /\ disposable_domains' = disposable_domains
               /\ whitelist_domains' = whitelist_domains
               /\ last_update' = last_update
               /\ disposable_file' = disposable_file
               /\ whitelist_file' = whitelist_file]_vars

\* a call has returned a verdict that carries a probe's answer without
\* having made a probe: it was served from the cache, after the clock moved
C35_Witness ==
    \E t \in Callers :
        /\ pc[t] = "done"
        /\ dns[t] = "none"
        /\ result[t].checks.mx_record_exists # MxNone
        /\ email[t] \in CacheKeys(cache)
        /\ CacheGet(cache, email[t]).timestamp < now


\* C36: right after a call has put its verdict, the cache holds the entry
\* for the call's address with that verdict, also when the put ran the size
\* sweep and other entries carry the same timestamp.
C36_PutSurvivesOwnSweep ==
    [][\A t \in Callers :
          Puts(t) =>
            /\ email'[t] \in CacheKeys(cache')
            /\ CacheGet(cache', email'[t]).result = to_dict(result'[t])]_vars


\* C37: no operation of the checker removes a domain from the disposable
\* set or from the whitelist set, and a step of check_email leaves the
\* whitelist set as it is.
C37_DomainSetsOnlyGrow ==
    [][/\ disposable_domains \subseteq disposable_domains'
       /\ whitelist_domains \subseteq whitelist_domains'
       /\ (pc' # pc) => whitelist_domains' = whitelist_domains]_vars

\* cleanup has run on an instance whose sets both grew: by a fetched
\* domain and by an added one
C37_Witness ==
    /\ phase = "down"
    /\ D_mailinator \in disposable_domains
    /\ D_temp_tk \in disposable_domains
    /\ D_temp_x_tk \in whitelist_domains


\* the requests of the client that check_rate_limit accepted with a
\* timestamp in (t - RATE_LIMIT_WINDOW, t], among the calls h
AcceptedIn(h, ip, t) ==
    {k \in 1..Len(h) :
        /\ h[k].ip = ip
        /\ h[k].ok
        /\ t - RATE_LIMIT_WINDOW < h[k].at
        /\ h[k].at <= t}

\* check_rate_limit is called in this step
Limits == Len(served') = Len(served) + 1

\* C38: for every client and every time t the requests accepted with a
\* timestamp in (t - RATE_LIMIT_WINDOW, t] are at most RATE_LIMIT_REQUESTS;
\* a rejected request records no timestamp and leaves the records of the
\* other clients as they are; and a request is accepted whenever fewer than
\* RATE_LIMIT_REQUESTS accepted requests of its client are younger than the
\* window, also for a client that was rejected before.
C38_SlidingWindowPerClient ==
    /\ [](\A ip \in RateClients, t \in StartTime..now :
             Cardinality(AcceptedIn(served, ip, t)) <= RATE_LIMIT_REQUESTS)
    /\ [][Limits =>
            LET call == served'[Len(served')]
                old  == StampsOf(rate_limit_storage, call.ip)
                new  == StampsOf(rate_limit_storage', call.ip)
            IN /\ call.ok = (Cardinality(AcceptedIn(served, call.ip, now))
                               < RATE_LIMIT_REQUESTS)
               /\ \A other \in RateClients \ {call.ip} :
                     StampsOf(rate_limit_storage', other)
                       = StampsOf(rate_limit_storage, other)
               /\ ~call.ok =>
                     /\ Len(new) <= Len(old)
                     /\ \A k \in 1..Len(new) : \E j \in 1..Len(old) : new[k] = old[j]
               /\ call.ok => new[Len(new)] = now]_vars

\* a client was rejected and, the window having moved on, accepted again
C38_Witness ==
    \E i, j \in 1..Len(served) :
        /\ i < j
        /\ served[i].ip = served[j].ip
        /\ ~served[i].ok
        /\ served[j].ok

=============================================================================
